---- MODULE Spec2Model ----
(***************************************************************************)
(* Retail analytics agent: the workflow graph of agent/graph_hybrid.py     *)
(* (router, retrieval, planner, SQL generation, execution, synthesis),     *)
(* driven once per request by process_question of run_agent_hybrid.py.     *)
(*                                                                         *)
(* Text that the code inspects character by character (the router's raw    *)
(* output, SQL text) is a sequence of one-character strings.  Text that    *)
(* the code only passes on (questions, answers, error messages, chunk      *)
(* contents) is an opaque string.  A confidence c stands for c/10.         *)
(***************************************************************************)
EXTENDS Integers, Sequences, FiniteSets, TLC

VARIABLES
    chunks,        \* LocalRetriever.chunks, fixed once the index is built
    bm25,          \* LocalRetriever.bm25: the scores of each query's chunks
    state,         \* the AgentState channels of the running request
    pc,            \* the node the graph runs next ("END" once it has finished)
    prev,          \* the node that ran last in this request ("START" if none)
    runs,          \* how often each node has run in this request
    failed_execs,  \* how many executions of this request returned an error
    router_out,    \* outcome of the router's completion call in this request
    tool_choice,   \* the value router_node wrote to state["route"]
    constraints,   \* the constraints of the latest SQL generation call
    sql_data,      \* the sql_data of the latest synthesis call
    exec_out,      \* what the database did in the latest execution
    gen_failed,    \* a completion call of SQL generation raised in this request
    question_obj,  \* process_question: the request being processed
    final_state,   \* process_question: the state app.invoke left
    stage,         \* process_question: where it stands
    output,        \* process_question: the record it returns
    first_call,    \* the first search made on the retriever, with its results
    last_call,     \* the latest search made on the retriever, with its results
    raw_text,      \* the raw completion text given to the clean-up
    cleaned,       \* what the clean-up of sql_gen_node made of it
    open_conns,    \* SQLiteTool: the connections that are open
    opened,        \* SQLiteTool: how many connections have been opened
    tool_result,   \* SQLiteTool: what the latest call returned
    docs_dir,      \* the files of the documentation folder
    lines,         \* main: the lines of the batch file
    line_num,      \* main: the number of the line read last
    results,       \* main: the records collected so far
    out_file,      \* main: the lines of the output file
    diagnostics,   \* main: the numbers of the lines reported as unparseable
    batch,         \* main: where it stands
    requests       \* main: how many requests have entered the graph

\* The variables of the retriever, of the graph, of process_question around
\* it, of the calls made on the tools on their own (tvars: the clean-up, the
\* database tool, the loading of the documents; with them the searches made
\* on a retriever), and of main
rvars == <<chunks, bm25>>
gvars == <<rvars, state, pc, prev, runs, failed_execs, router_out,
           tool_choice, constraints, sql_data, exec_out, gen_failed>>
pvars == <<question_obj, final_state, stage, output>>
tvars == <<raw_text, cleaned, open_conns, opened, tool_result, docs_dir>>
svars == <<first_call, last_call, tvars>>
bvars == <<lines, line_num, results, out_file, diagnostics, batch,
          requests>>
vars == <<gvars, pvars, svars, bvars>>

---------------------------------------------------------------------------
(* Bounds of the model *)

\* The run counters of a request stop counting at MaxRuns.
MaxRuns == 4

---------------------------------------------------------------------------
(* Text *)

UpperCase == <<"A", "B", "C", "D", "E", "F", "G", "H", "I", "J", "K", "L", "M",
               "N", "O", "P", "Q", "R", "S", "T", "U", "V", "W", "X", "Y", "Z">>
LowerCase == <<"a", "b", "c", "d", "e", "f", "g", "h", "i", "j", "k", "l", "m",
               "n", "o", "p", "q", "r", "s", "t", "u", "v", "w", "x", "y", "z">>
Whitespace == {" ", "\n", "\t", "\r"}

\* str.lower() on one character
LowerChar(c) ==
    IF \E i \in 1..Len(UpperCase) : UpperCase[i] = c
    THEN LowerCase[CHOOSE i \in 1..Len(UpperCase) : UpperCase[i] = c]
    ELSE c

\* str.lower()
lower(s) == [i \in 1..Len(s) |-> LowerChar(s[i])]

\* str.lstrip(), str.rstrip(), str.strip()
RECURSIVE lstrip(_)
lstrip(s) == IF s # <<>> /\ Head(s) \in Whitespace THEN lstrip(Tail(s)) ELSE s
RECURSIVE rstrip(_)
rstrip(s) ==
    IF s # <<>> /\ s[Len(s)] \in Whitespace
    THEN rstrip(SubSeq(s, 1, Len(s) - 1))
    ELSE s
strip(s) == rstrip(lstrip(s))

\* str.startswith(p), str.endswith(p), p in s
startswith(s, p) == Len(p) <= Len(s) /\ SubSeq(s, 1, Len(p)) = p
endswith(s, p) == Len(p) <= Len(s) /\ SubSeq(s, Len(s) - Len(p) + 1, Len(s)) = p
contains(s, p) ==
    \E i \in 1..(Len(s) - Len(p) + 1) : SubSeq(s, i, i + Len(p) - 1) = p

---------------------------------------------------------------------------
(* Dictionaries: a dict is a function from its keys *)

EmptyDict == [k \in {} |-> ""]
DictGet(d, key, default) == IF key \in DOMAIN d THEN d[key] ELSE default
DictSet(d, key, value) ==
    [k \in DOMAIN d \cup {key} |-> IF k = key THEN value ELSE d[k]]

---------------------------------------------------------------------------
(* The graph's state *)

\* The fields AgentState declares.
AgentStateKeys ==
    {"question", "format_hint", "sql_query", "sql_result", "retrieved_docs",
     "final_answer", "confidence", "explanation", "citations", "error_count"}

\* StateGraph(AgentState): the graph keeps one channel per declared field.  Of
\* the dict a node returns, the entries under declared keys update the
\* channels; the branch functions and the next node read the channels.
ChannelUpdate(old, ret) ==
    [k \in DOMAIN old \cup (DOMAIN ret \cap AgentStateKeys) |->
        IF k \in DOMAIN ret THEN ret[k] ELSE old[k]]

Nodes == {"router_node", "retrieval_node", "planner_node", "sql_gen_node",
          "executor_node", "synthesizer_node"}

RAG == <<"r", "a", "g">>
SQL == <<"s", "q", "l">>
HYBRID == <<"h", "y", "b", "r", "i", "d">>
Routes == {RAG, SQL, HYBRID}
NoRoute == <<>>

\* The requests of the model.
Questions == {"q1", "q2"}
FormatHints == {"string", "int"}

\* process_question: the state a request starts from.
initial_state(question, format_hint) ==
    [question |-> question,
     format_hint |-> format_hint,
     sql_query |-> <<>>,
     sql_result |-> EmptyDict,
     retrieved_docs |-> <<>>,
     final_answer |-> "",
     confidence |-> 0,
     explanation |-> "",
     citations |-> {},
     error_count |-> 0]

\* One more run of node n, counted up to MaxRuns.
Ran(n) == [runs EXCEPT ![n] = IF @ < MaxRuns THEN @ + 1 ELSE @]

---------------------------------------------------------------------------
(* Router *)

NoText == <<>>

\* What the router's completion call can do: return a prediction whose
\* tool_choice is a string ("ok") or not a string ("none"), return a
\* prediction without that field ("nofield"), or raise ("raise").
RouterCompletions ==
    { [kind |-> "ok", text |-> t] :
        t \in { RAG, <<" ", "S", "Q", "L", "\n">>, <<"R", "a", "g">>,
                <<"H", "Y", "B", "R", "I", "D", " ">>, SQL,
                <<"b", "o", "t", "h">>, <<>> } }
    \cup { [kind |-> k, text |-> NoText] : k \in {"none", "nofield", "raise"} }

\* RouterModule.forward: the field of the prediction, "hybrid" when the field
\* is missing or the call raised.
RouterModule_forward(out) ==
    IF out.kind = "raise" THEN [kind |-> "ok", text |-> HYBRID]
    ELSE IF out.kind = "nofield" THEN [kind |-> "ok", text |-> HYBRID]
    ELSE out

\* router_node without the strip() of line 44
router_choice_no_strip(out) ==
    LET r == RouterModule_forward(out) IN
    IF r.kind # "ok" THEN HYBRID
    ELSE LET t == lower(r.text) IN
         IF t \in Routes THEN t ELSE HYBRID

\* router_node, lines 41-49: the normalised choice; a value that is no string
\* raises inside the try block and is answered with the default.
router_choice(out) ==
    LET r == RouterModule_forward(out) IN
    IF r.kind # "ok" THEN HYBRID
    ELSE LET t == strip(lower(r.text)) IN
         IF t \in Routes THEN t ELSE HYBRID

\* route_after_router
route_after_router(s) ==
    LET route == DictGet(s, "route", HYBRID) IN
    IF route = RAG THEN "retrieval_node"
    ELSE IF route = SQL THEN "planner_node"
    ELSE "retrieval_node"

router_node ==
    /\ pc = "router_node"
    /\ \E out \in RouterCompletions :
         /\ router_out' = out
         /\ tool_choice' = router_choice(out)
         /\ state' = ChannelUpdate(state,
                                   DictSet(state, "route", router_choice(out)))
    /\ pc' = route_after_router(state')
    /\ prev' = "router_node"
    /\ runs' = Ran("router_node")
    /\ UNCHANGED <<pvars, svars, bvars, rvars, failed_execs, constraints,
                   sql_data, exec_out, gen_failed>>

---------------------------------------------------------------------------
(* Retrieval *)

\* k of retrieval_node's search call
RetrievalK == 3

\* The chunks of a corpus of two files, as _chunk_content names them.
Corpus ==
    << [doc_id |-> "a.md::chunk_0", content |-> "c0"],
       [doc_id |-> "a.md::chunk_1", content |-> "c1"],
       [doc_id |-> "b.md::chunk_0", content |-> "c2"],
       [doc_id |-> "b.md::chunk_1", content |-> "c3"] >>

\* BM25Okapi.get_scores on the tokenized query, one score per chunk: q1
\* matches chunks 2 and 3 equally and chunk 1 less, q2 matches nothing.
get_scores(query) ==
    IF query = "q1" THEN <<1, 3, 3, 0>> ELSE <<0, 0, 0, 0>>

\* No index: bm25 is None
NoIndex == [q \in {} |-> <<>>]

\* _load_and_index_docs, lines 35-37: the index is built when there are chunks
BM25Okapi(chs) ==
    IF chs = <<>> THEN NoIndex ELSE [q \in Questions |-> get_scores(q)]

\* sorted(...) putting a later index before an earlier one of equal score
RECURSIVE InsertDesc_ties_reversed(_, _, _)
InsertDesc_ties_reversed(sorted, i, scores) ==
    IF sorted = <<>> THEN <<i>>
    ELSE IF scores[Head(sorted)] > scores[i]
         THEN <<Head(sorted)>>
                  \o InsertDesc_ties_reversed(Tail(sorted), i, scores)
         ELSE <<i>> \o sorted

\* sorted(..., key=scores, reverse=True): a stable sort, by insertion.
RECURSIVE InsertDesc(_, _, _)
InsertDesc(sorted, i, scores) ==
    IF sorted = <<>> THEN <<i>>
    ELSE IF scores[Head(sorted)] >= scores[i]
         THEN <<Head(sorted)>> \o InsertDesc(Tail(sorted), i, scores)
         ELSE <<i>> \o sorted

RECURSIVE SortedDesc(_, _)
SortedDesc(n, scores) ==
    IF n = 0 THEN <<>> ELSE InsertDesc(SortedDesc(n - 1, scores), n, scores)

\* A search that leaves out the chunks the search before it returned
search_skipping_seen(query, k) ==
    IF bm25 = NoIndex \/ chunks = <<>> THEN <<>>
    ELSE LET scores == bm25[query]
             order == SelectSeq(SortedDesc(Len(scores), scores),
                                LAMBDA m : \A r \in 1..Len(last_call.results) :
                                               last_call.results[r] # chunks[m])
             top_indices ==
                 SubSeq(order, 1, IF k < Len(order) THEN k ELSE Len(order))
         IN [i \in 1..Len(top_indices) |-> chunks[top_indices[i]]]

\* LocalRetriever.search
search(query, k) ==
    IF bm25 = NoIndex \/ chunks = <<>> THEN <<>>
    ELSE LET scores == bm25[query]
             order == SortedDesc(Len(scores), scores)
             top_indices ==
                 SubSeq(order, 1, IF k < Len(order) THEN k ELSE Len(order))
         IN [i \in 1..Len(top_indices) |-> chunks[top_indices[i]]]

\* route_after_retrieval
route_after_retrieval(s) ==
    LET route == DictGet(s, "route", HYBRID) IN
    IF route \in {SQL, HYBRID} THEN "planner_node" ELSE "synthesizer_node"

retrieval_node ==
    /\ pc = "retrieval_node"
    /\ state' = ChannelUpdate(state,
           DictSet(state, "retrieved_docs", search(state.question, RetrievalK)))
    /\ pc' = route_after_retrieval(state')
    /\ prev' = "retrieval_node"
    /\ runs' = Ran("retrieval_node")
    /\ UNCHANGED <<pvars, svars, bvars, rvars, failed_execs, router_out,
                   tool_choice, constraints, sql_data, exec_out, gen_failed>>

---------------------------------------------------------------------------
(* Planner *)

planner_node ==
    /\ pc = "planner_node"
    /\ state' = ChannelUpdate(state,
           IF "error_count" \notin DOMAIN state
           THEN DictSet(state, "error_count", 0)
           ELSE state)
    /\ pc' = "sql_gen_node"
    /\ prev' = "planner_node"
    /\ runs' = Ran("planner_node")
    /\ UNCHANGED <<pvars, svars, bvars, rvars, failed_execs, router_out,
                   tool_choice, constraints, sql_data, exec_out, gen_failed>>

---------------------------------------------------------------------------
(* SQL generation *)

\* The backquote character (a string of this language cannot hold one).
BQ == "^"

Fence == <<BQ, BQ, BQ>>
FenceSql == <<BQ, BQ, BQ, "s", "q", "l">>

\* The placeholder of SQLGeneratorModule.forward and the fallback query of
\* sql_gen_node.
SelectOne == <<"S", "E", "L", "E", "C", "T", " ", "1">>
FallbackQuery ==
    <<"S", "E", "L", "E", "C", "T", " ", "'", "E", "r", "r", "o", "r", " ",
      "g", "e", "n", "e", "r", "a", "t", "i", "n", "g", " ", "q", "u", "e",
      "r", "y", "'", " ", "a", "s", " ", "e", "r", "r", "o", "r">>

\* Raw texts the SQL generator's completion call returns in the model.
GenTexts ==
    { <<BQ, BQ, BQ, "s", "q", "l", "\n", "F", "R", "O", "M", " ", "O", "r",
        "d", "e", "r", "s", "\n", BQ, BQ, BQ>>,
      <<"S", "E", "L", "E", "C", "T", " ", "x">>,
      <<" ", BQ, BQ, BQ, "F", "R", "O", "M", " ", "P", "r", "o", "d", "u",
        "c", "t", "s", BQ, BQ, BQ>>,
      <<BQ, BQ, BQ, "s", "q", "l", "\n", BQ, BQ, BQ>> }

\* What the SQL generator's completion call can do (as for the router).
GenCompletions ==
    { [kind |-> "ok", text |-> t] : t \in GenTexts }
    \cup { [kind |-> k, text |-> NoText] : k \in {"none", "nofield", "raise"} }

\* SQLGeneratorModule.forward
SQLGeneratorModule_forward(out) ==
    IF out.kind = "raise" THEN [kind |-> "ok", text |-> SelectOne]
    ELSE IF out.kind = "nofield" THEN [kind |-> "ok", text |-> SelectOne]
    ELSE out

\* s[n:] and s[:-n]
DropFirst(s, n) == SubSeq(s, n + 1, Len(s))
DropLast(s, n) == SubSeq(s, 1, Len(s) - n)

\* sql_gen_node, lines 95-103: the clean-up of the generated text
clean_sql(raw) ==
    LET s1 == strip(raw)
        s2 == IF startswith(s1, FenceSql) THEN DropFirst(s1, 6) ELSE s1
        s3 == IF startswith(s2, Fence) THEN DropFirst(s2, 3) ELSE s2
        s4 == IF endswith(s3, Fence) THEN DropLast(s3, 3) ELSE s3
    IN strip(s4)

\* bool(d.get("error")) of an SQL result
has_error(sql_result) == DictGet(sql_result, "error", "") # ""

\* sql_gen_node appending the previous query without its error message
build_constraints_without_error(s) ==
    IF DictGet(s, "sql_result", EmptyDict) # EmptyDict /\ has_error(s.sql_result)
    THEN [guidance |-> TRUE, repair |-> TRUE,
          previous_query |-> DictGet(s, "sql_query", <<>>),
          error_msg |-> ""]
    ELSE [guidance |-> TRUE, repair |-> FALSE,
          previous_query |-> <<>>, error_msg |-> ""]

\* sql_gen_node, lines 80-86: the fixed guidance, and after a failed result
\* the previous query and its error message.
build_constraints(s) ==
    IF DictGet(s, "sql_result", EmptyDict) # EmptyDict /\ has_error(s.sql_result)
    THEN [guidance |-> TRUE, repair |-> TRUE,
          previous_query |-> DictGet(s, "sql_query", <<>>),
          error_msg |-> s.sql_result.error]
    ELSE [guidance |-> TRUE, repair |-> FALSE,
          previous_query |-> <<>>, error_msg |-> ""]

\* The message of the exception a value that is no string raises in the node.
NotAString == "'NoneType' object has no attribute 'strip'"

\* sql_gen_node returning a state without the retrieved documents
sql_gen_result_dropping_docs(s, out) ==
    LET r == SQLGeneratorModule_forward(out) IN
    IF r.kind = "ok"
    THEN DictSet(DictSet(s, "sql_query", clean_sql(r.text)),
                 "retrieved_docs", <<>>)
    ELSE DictSet(DictSet(s, "sql_query", FallbackQuery), "sql_result",
                 [error |-> NotAString, rows |-> <<>>, columns |-> <<>>])

\* sql_gen_node: the dict the node returns
sql_gen_result(s, out) ==
    LET r == SQLGeneratorModule_forward(out) IN
    IF r.kind = "ok"
    THEN DictSet(s, "sql_query", clean_sql(r.text))
    ELSE DictSet(DictSet(s, "sql_query", FallbackQuery), "sql_result",
                 [error |-> NotAString, rows |-> <<>>, columns |-> <<>>])

sql_gen_node ==
    /\ pc = "sql_gen_node"
    /\ constraints' = build_constraints(state)
    /\ \E out \in GenCompletions :
         /\ state' = ChannelUpdate(state, sql_gen_result(state, out))
         /\ gen_failed' = (gen_failed \/ out.kind = "raise")
    /\ pc' = "executor_node"
    /\ prev' = "sql_gen_node"
    /\ runs' = Ran("sql_gen_node")
    /\ UNCHANGED <<pvars, svars, bvars, rvars, failed_execs, router_out,
                   tool_choice, sql_data, exec_out>>

---------------------------------------------------------------------------
(* Execution *)

\* What the database can do with a statement: "execute" raises in connect or
\* execute, "fetch" raises in fetchall, "no" raises nowhere.  description is
\* the column names of the result set, empty for a statement without one.
\* msg is str(e) of the exception: the database's message, and the empty
\* string for a MemoryError (raised without arguments when memory runs out,
\* here while fetchall builds a large result).
ExecOutcomes ==
    { [raises |-> "no", description |-> <<>>, rows |-> <<>>, msg |-> ""],
      [raises |-> "no", description |-> <<"n">>, rows |-> << <<"14">> >>,
       msg |-> ""],
      [raises |-> "no", description |-> <<"Picture">>,
       rows |-> << <<"BLOB">> >>, msg |-> ""],
      [raises |-> "execute", description |-> <<>>, rows |-> <<>>,
       msg |-> "no such column: x"],
      [raises |-> "fetch", description |-> <<"n">>, rows |-> <<>>,
       msg |-> "integer overflow"],
      [raises |-> "fetch", description |-> <<"n">>, rows |-> <<>>,
       msg |-> ""] }

\* SQLiteTool.execute_query
execute_query(sql, o) ==
    IF o.raises = "execute"
    THEN [columns |-> <<>>, rows |-> <<>>, error |-> o.msg]
    ELSE IF o.description # <<>>
         THEN IF o.raises = "fetch"
              THEN [columns |-> o.description, rows |-> <<>>, error |-> o.msg]
              ELSE [columns |-> o.description, rows |-> o.rows, error |-> ""]
         ELSE [columns |-> <<>>, rows |-> <<>>, error |-> ""]

\* executor_node keeping the result of a failed execution before this one
executor_result_keeping_failure(s, o) ==
    LET result == IF has_error(DictGet(s, "sql_result", EmptyDict))
                  THEN s.sql_result
                  ELSE execute_query(s.sql_query, o)
        s1 == DictSet(s, "sql_result", result)
    IN IF has_error(result)
       THEN DictSet(s1, "error_count", DictGet(s1, "error_count", 0) + 1)
       ELSE s1

\* executor_node without the count of lines 122-123
executor_result_no_count(s, o) ==
    DictSet(s, "sql_result", execute_query(s.sql_query, o))

\* executor_node counting every execution, failed or not
executor_result_counts_all(s, o) ==
    LET s1 == DictSet(s, "sql_result", execute_query(s.sql_query, o))
    IN DictSet(s1, "error_count", DictGet(s1, "error_count", 0) + 1)

\* executor_node setting a low confidence where it sees the error
executor_result_sets_confidence(s, o) ==
    LET result == execute_query(s.sql_query, o)
        s1 == DictSet(s, "sql_result", result)
    IN IF has_error(result)
       THEN DictSet(DictSet(s1, "error_count",
                            DictGet(s1, "error_count", 0) + 1),
                    "confidence", 3)
       ELSE s1

\* executor_node: the dict the node returns
executor_result(s, o) ==
    LET result == execute_query(s.sql_query, o)
        s1 == DictSet(s, "sql_result", result)
    IN IF has_error(result)
       THEN DictSet(s1, "error_count", DictGet(s1, "error_count", 0) + 1)
       ELSE s1

\* The cap route_after_executor compares error_count with.
RetryCap == 2

\* route_after_executor with a cap of 4, with <= for <, and with a cap of 1
route_after_executor_cap4(s) ==
    IF has_error(s.sql_result) /\ DictGet(s, "error_count", 0) < 4
    THEN "sql_gen_node"
    ELSE "synthesizer_node"
route_after_executor_le(s) ==
    IF has_error(s.sql_result) /\ DictGet(s, "error_count", 0) <= 2
    THEN "sql_gen_node"
    ELSE "synthesizer_node"
route_after_executor_cap1(s) ==
    IF has_error(s.sql_result) /\ DictGet(s, "error_count", 0) < 1
    THEN "sql_gen_node"
    ELSE "synthesizer_node"

\* route_after_executor
route_after_executor(s) ==
    IF has_error(s.sql_result) /\ DictGet(s, "error_count", 0) < RetryCap
    THEN "sql_gen_node"
    ELSE "synthesizer_node"

executor_node ==
    /\ pc = "executor_node"
    /\ \E o \in ExecOutcomes :
         /\ exec_out' = [raises |-> o.raises, description |-> o.description,
                          rows |-> o.rows, msg |-> o.msg,
                          sql |-> state.sql_query]
         /\ state' = ChannelUpdate(state, executor_result(state, o))
    /\ failed_execs' = IF has_error(state'.sql_result) /\ failed_execs < MaxRuns
                       THEN failed_execs + 1 ELSE failed_execs
    /\ pc' = route_after_executor(state')
    /\ prev' = "executor_node"
    /\ runs' = Ran("executor_node")
    /\ UNCHANGED <<pvars, svars, bvars, rvars, router_out, tool_choice,
                   constraints, sql_data, gen_failed>>

---------------------------------------------------------------------------
(* Synthesis *)

\* The confidence values of synthesizer_node, in tenths.
ConfSqlError == 3
ConfWithDocs == 9
ConfNoDocs == 7
ConfSynthError == 1

\* The table names synthesizer_node looks for, each with its citation.
Tables ==
    << [name |-> <<"O", "r", "d", "e", "r", "s">>, cite |-> "Table: Orders"],
       [name |-> <<"O", "r", "d", "e", "r", " ", "D", "e", "t", "a", "i", "l",
                   "s">>, cite |-> "Table: Order Details"],
       [name |-> <<"P", "r", "o", "d", "u", "c", "t", "s">>,
        cite |-> "Table: Products"],
       [name |-> <<"C", "u", "s", "t", "o", "m", "e", "r", "s">>,
        cite |-> "Table: Customers"] >>

\* What the synthesizer's completion call can do: return a prediction with or
\* without each of its two fields, or raise.
SynthCompletions ==
    { [kind |-> "ok", has_answer |-> a, has_explanation |-> e] :
        a \in BOOLEAN, e \in BOOLEAN }
    \cup { [kind |-> "raise", has_answer |-> FALSE, has_explanation |-> FALSE] }

\* SynthesizerModule.forward
SynthesizerModule_forward(out) ==
    IF out.kind = "raise"
    THEN [final_answer |-> "Error generating answer",
          explanation |-> "completion failed"]
    ELSE [final_answer |-> IF out.has_answer THEN "The answer is 14"
                           ELSE "No answer generated",
          explanation |-> IF out.has_explanation THEN "Counted the orders"
                          ELSE "Unable to explain"]

\* json.dumps raises on a value (a BLOB comes back as bytes) it cannot encode.
json_serializable(rows) ==
    \A i \in 1..Len(rows) : \A j \in 1..Len(rows[i]) : rows[i][j] # "BLOB"

NoSqlData == [kind |-> "empty", error |-> "", columns |-> <<>>, rows |-> <<>>]

\* synthesizer_node giving the synthesizer no SQL data for a failed result
make_sql_data_hiding_error(s) ==
    LET sql_result == DictGet(s, "sql_result", EmptyDict) IN
    IF sql_result = EmptyDict \/ has_error(sql_result) THEN NoSqlData
    ELSE [kind |-> "json", error |-> "",
          columns |-> DictGet(sql_result, "columns", <<>>),
          rows |-> DictGet(sql_result, "rows", <<>>)]

\* synthesizer_node, lines 132-140: the SQL data as the synthesizer gets it
make_sql_data(s) ==
    LET sql_result == DictGet(s, "sql_result", EmptyDict) IN
    IF sql_result = EmptyDict THEN NoSqlData
    ELSE IF has_error(sql_result)
         THEN [kind |-> "SQL Error", error |-> sql_result.error,
               columns |-> <<>>, rows |-> <<>>]
         ELSE [kind |-> "json", error |-> "",
               columns |-> DictGet(sql_result, "columns", <<>>),
               rows |-> DictGet(sql_result, "rows", <<>>)]

\* Whether the try block of synthesizer_node raises (in json.dumps).
synthesizer_raises(s) ==
    LET d == make_sql_data(s) IN d.kind = "json" /\ ~json_serializable(d.rows)

\* synthesizer_node, lines 160-173
make_citations(s) ==
    LET docs == DictGet(s, "retrieved_docs", <<>>)
        doc_ids == { docs[i].doc_id : i \in 1..Len(docs) }
        table_cites ==
            IF DictGet(s, "sql_query", <<>>) # <<>> /\ ~has_error(s.sql_result)
            THEN { Tables[i].cite :
                     i \in { j \in 1..Len(Tables) :
                               contains(s.sql_query, Tables[j].name) } }
            ELSE {}
    IN doc_ids \cup table_cites

\* synthesizer_node testing the documents before the error
make_confidence_docs_first(s) ==
    IF Len(DictGet(s, "retrieved_docs", <<>>)) > 0 THEN ConfWithDocs
    ELSE IF has_error(s.sql_result) THEN ConfSqlError
    ELSE ConfNoDocs

\* synthesizer_node lowering the confidence after any counted error
make_confidence_counting_errors(s) ==
    IF has_error(s.sql_result) \/ DictGet(s, "error_count", 0) > 0
    THEN ConfSqlError
    ELSE IF Len(DictGet(s, "retrieved_docs", <<>>)) > 0 THEN ConfWithDocs
    ELSE ConfNoDocs

\* synthesizer_node, lines 176-181
make_confidence(s) ==
    IF has_error(s.sql_result) THEN ConfSqlError
    ELSE IF Len(DictGet(s, "retrieved_docs", <<>>)) > 0 THEN ConfWithDocs
    ELSE ConfNoDocs

\* synthesizer_node: the dict the node returns
synthesizer_result(s, out) ==
    IF synthesizer_raises(s)
    THEN [k \in DOMAIN s \cup {"final_answer", "explanation", "confidence",
                               "citations"} |->
            CASE k = "final_answer" ->
                   "Unable to generate answer due to processing error."
              [] k = "explanation" ->
                   "Error: Object of type bytes is not JSON serializable"
              [] k = "confidence" -> ConfSynthError
              [] k = "citations" -> {}
              [] OTHER -> s[k]]
    ELSE LET result == SynthesizerModule_forward(out) IN
         [k \in DOMAIN s \cup {"final_answer", "explanation", "confidence",
                               "citations"} |->
            CASE k = "final_answer" -> result.final_answer
              [] k = "explanation" -> result.explanation
              [] k = "confidence" -> make_confidence(s)
              [] k = "citations" -> make_citations(s)
              [] OTHER -> s[k]]

synthesizer_node ==
    /\ pc = "synthesizer_node"
    /\ sql_data' = IF synthesizer_raises(state) THEN sql_data
                   ELSE make_sql_data(state)
    /\ \E out \in SynthCompletions :
         state' = ChannelUpdate(state, synthesizer_result(state, out))
    /\ pc' = "END"
    /\ prev' = "synthesizer_node"
    /\ runs' = Ran("synthesizer_node")
    /\ UNCHANGED <<pvars, svars, bvars, rvars, failed_execs, router_out,
                   tool_choice, constraints, exec_out, gen_failed>>

---------------------------------------------------------------------------
(* Requests *)

NoCompletion == [kind |-> "pending", text |-> NoText]
NoConstraints ==
    [guidance |-> FALSE, repair |-> FALSE, previous_query |-> <<>>,
     error_msg |-> ""]
NoCall == [kind |-> "pending", error |-> "", columns |-> <<>>, rows |-> <<>>]
NoExecution ==
    [raises |-> "pending", description |-> <<>>, rows |-> <<>>, msg |-> "",
     sql |-> <<>>]
NoState ==
    [final_answer |-> <<>>, sql_query |-> <<>>, confidence |-> 0,
     explanation |-> "", citations |-> {}]
NoResult == EmptyDict

NoSearch == [query |-> "", k |-> 0, results |-> <<>>, others |-> FALSE]

\* No search is being followed, no batch is being read, process_question is
\* inside app.invoke
SearchIdle == first_call = NoSearch /\ last_call = NoSearch

\* No call on a tool is being followed on its own.
NotCleaned == <<"pending">>
NoToolResult == [call |-> "none", value |-> EmptyDict]
ToolsIdle ==
    /\ raw_text = <<>>
    /\ cleaned = NotCleaned
    /\ open_conns = {}
    /\ opened = 0
    /\ tool_result = NoToolResult
    /\ docs_dir = <<>>
BatchIdle ==
    /\ lines = <<>>
    /\ line_num = 0
    /\ results = <<>>
    /\ out_file = <<>>
    /\ diagnostics = <<>>
    /\ batch = "idle"
    /\ requests = 1
ProcessIdle ==
    /\ question_obj = EmptyDict
    /\ final_state = NoState
    /\ stage = "graph"
    /\ output = NoResult

\* process_question entering the graph with the dict of the request before
StartRequest_reusing_state(question, format_hint) ==
    /\ state' = [state EXCEPT !.question = question,
                              !.format_hint = format_hint]
    /\ pc' = "router_node"
    /\ prev' = "START"
    /\ runs' = [n \in Nodes |-> 0]
    /\ failed_execs' = 0
    /\ router_out' = NoCompletion
    /\ tool_choice' = NoRoute
    /\ constraints' = NoConstraints
    /\ sql_data' = NoCall
    /\ exec_out' = NoExecution
    /\ gen_failed' = FALSE

\* process_question, lines 93-109: a request enters the graph at the router
\* with its own initial state.
StartRequest(question, format_hint) ==
    /\ state' = initial_state(question, format_hint)
    /\ pc' = "router_node"
    /\ prev' = "START"
    /\ runs' = [n \in Nodes |-> 0]
    /\ failed_execs' = 0
    /\ router_out' = NoCompletion
    /\ tool_choice' = NoRoute
    /\ constraints' = NoConstraints
    /\ sql_data' = NoCall
    /\ exec_out' = NoExecution
    /\ gen_failed' = FALSE

\* main: the next request of the batch, once the previous one has finished
process_question ==
    /\ pc = "END"
    /\ \E q \in Questions, h \in FormatHints : StartRequest(q, h)
    /\ UNCHANGED <<pvars, svars, bvars, rvars>>

\* main with a batch of at most MaxRequests requests: the next one enters once
\* the one before it has left the graph.
MaxRequests == 2

next_request ==
    /\ pc = "END"
    /\ requests < MaxRequests
    /\ requests' = requests + 1
    /\ \E q \in Questions, h \in FormatHints : StartRequest(q, h)
    /\ UNCHANGED <<pvars, svars, rvars, lines, line_num, results, out_file,
                   diagnostics, batch>>

\* The retriever has indexed the corpus (or found none) and the first request
\* is about to enter the graph.
Init ==
    /\ chunks \in {<<>>, Corpus}
    /\ bm25 = BM25Okapi(chunks)
    /\ \E q \in Questions, h \in FormatHints :
         state = initial_state(q, h)
    /\ pc = "router_node"
    /\ prev = "START"
    /\ runs = [n \in Nodes |-> 0]
    /\ failed_execs = 0
    /\ router_out = NoCompletion
    /\ tool_choice = NoRoute
    /\ constraints = NoConstraints
    /\ sql_data = NoCall
    /\ exec_out = NoExecution
    /\ gen_failed = FALSE
    /\ ProcessIdle
    /\ SearchIdle
    /\ ToolsIdle
    /\ BatchIdle

\* One step of the compiled graph.
Step ==
    \/ router_node
    \/ retrieval_node
    \/ planner_node
    \/ sql_gen_node
    \/ executor_node
    \/ synthesizer_node

Next == Step \/ process_question

Spec == Init /\ [][Next]_vars

RequestsNext == Step \/ next_request

RequestsSpec == Init /\ [][RequestsNext]_vars

\* app.invoke runs the graph's steps one after another until END.
FairSpec == Spec /\ WF_vars(Step)

---------------------------------------------------------------------------
(* Properties of the workflow *)

\* An upper bound on the steps a request still has to take: the remaining
\* path through the graph, the repair loop taken as often as the error count
\* still allows.
StepsLeft ==
    CASE pc = "router_node" -> 8
      [] pc = "retrieval_node" -> 7
      [] pc = "planner_node" -> 6
      [] pc = "sql_gen_node" -> 5 - 2 * state.error_count
      [] pc = "executor_node" -> 4 - 2 * state.error_count
      [] pc = "synthesizer_node" -> 1
      [] OTHER -> 0

\* C1: every request that enters the graph at the router reaches END after
\* finitely many steps: a request not at END can always take a step, every
\* step brings it nearer to END (StepsLeft falls and stays a natural number),
\* and the graph steps to END from the synthesizer only.
C1_ReachesEnd ==
    /\ [](pc # "END" => (pc \in Nodes /\ ENABLED Step))
    /\ [][pc # "END" => (StepsLeft' < StepsLeft /\ StepsLeft' >= 0)]_vars
    /\ [][pc' = "END" => pc = "synthesizer_node"]_vars

\* C1, as a liveness property of the graph run to completion (FairSpec).
C1_Liveness == [](pc = "router_node" => <>(pc = "END"))

\* A request has come to END through the repair loop.
C1_Witness ==
    pc = "END" /\ prev = "synthesizer_node" /\ runs["executor_node"] = 2

\* C2: in one request the executor runs at most 3 times and the SQL
\* generator runs at most 3 times, whatever the executions return.
C2_AtMostThreeAttempts ==
    runs["executor_node"] <= 3 /\ runs["sql_gen_node"] <= 3

\* The synthesizer is reached after the last attempt the loop allows failed.
C2_Witness ==
    /\ pc = "synthesizer_node"
    /\ failed_execs = runs["executor_node"]
    /\ runs["executor_node"] >= 2

\* C3: when every execution of a request fails, the SQL generator and the
\* executor have each run exactly 3 times when the synthesizer is reached.
C3_ThreeAttemptsWhenAllFail ==
    (/\ pc = "synthesizer_node"
     /\ runs["executor_node"] > 0
     /\ failed_execs = runs["executor_node"])
    => (runs["executor_node"] = 3 /\ runs["sql_gen_node"] = 3)

\* C4: the step after the executor is the SQL generator exactly when the
\* result the executor stored carries an error and the error count it left
\* is below 2, and the synthesizer otherwise.
C4_AfterExecutor ==
    [][pc = "executor_node" =>
         IF state'.sql_result.error # "" /\ state'.error_count < 2
         THEN pc' = "sql_gen_node"
         ELSE pc' = "synthesizer_node"]_vars

\* The executor has stored an error and the synthesizer is next.
C4_Witness ==
    /\ prev = "executor_node"
    /\ pc = "synthesizer_node"
    /\ state.sql_result.error # ""

\* C5: when the synthesizer is about to run on an SQL result that carries an
\* error, the error count is 2.
C5_ErrorAtSynthesisMeansCap ==
    (/\ pc = "synthesizer_node"
     /\ "error" \in DOMAIN state.sql_result
     /\ state.sql_result.error # "")
    => state.error_count = 2

\* The synthesizer is about to run on a failed result.
C5_Witness ==
    /\ pc = "synthesizer_node"
    /\ "error" \in DOMAIN state.sql_result
    /\ state.sql_result.error # ""

\* C6: within a request the error count goes up by exactly 1 in an executor
\* step whose result carries an error and is unchanged by every other step.
C6_ErrorCountSteps ==
    [][pc # "END" =>
         state'.error_count =
             state.error_count
             + (IF pc = "executor_node" /\ state'.sql_result.error # ""
                THEN 1 ELSE 0)]_vars

\* A failed execution has been followed by a successful one.
C6_Witness ==
    /\ prev = "executor_node"
    /\ state.error_count = 1
    /\ state.sql_result.error = ""

\* Whether the final SQL result carries an error / holds a value that
\* cannot be written as JSON.
FinalResultFailed ==
    "error" \in DOMAIN state.sql_result /\ state.sql_result.error # ""
FinalResultHasBlob ==
    /\ "rows" \in DOMAIN state.sql_result
    /\ \E i \in 1..Len(state.sql_result.rows) :
         \E j \in 1..Len(state.sql_result.rows[i]) :
            state.sql_result.rows[i][j] = "BLOB"

\* C7 as claimed: at END the confidence is 0.3 if the final SQL result
\* carries an error, 0.9 if it does not and a document was retrieved, and 0.7
\* otherwise.
C7_ThreeValues ==
    pc = "END" =>
        state.confidence =
            (IF FinalResultFailed THEN 3
             ELSE IF Len(state.retrieved_docs) > 0 THEN 9 ELSE 7)

\* C7 as amended: at END the confidence is 0.1 if the final SQL result has
\* no error and holds a value that cannot be written as JSON (the synthesizer
\* failed), and otherwise 0.3, 0.9 or 0.7 by the rule above.
C7_FourValues ==
    pc = "END" =>
        state.confidence =
            (IF ~FinalResultFailed /\ FinalResultHasBlob THEN 1
             ELSE IF FinalResultFailed THEN 3
             ELSE IF Len(state.retrieved_docs) > 0 THEN 9 ELSE 7)

\* A request has ended with a failed final result and retrieved documents.
C7_Witness ==
    /\ pc = "END"
    /\ FinalResultFailed
    /\ Len(state.retrieved_docs) > 0
    /\ state.confidence = 3

\* C8: a request the router routed sql goes from the router to the planner
\* and never runs retrieval; one routed rag or hybrid goes to retrieval.
C8_SqlSkipsRetrieval ==
    /\ tool_choice = SQL =>
         /\ runs["retrieval_node"] = 0
         /\ prev = "router_node" => pc = "planner_node"
    /\ (tool_choice \in {RAG, HYBRID} /\ prev = "router_node")
         => pc = "retrieval_node"

\* C9: a request the router routed rag goes from retrieval to the
\* synthesizer: planner, SQL generator and executor never run, the SQL query
\* stays empty and the citations are the retrieved chunks' identifiers; one
\* routed hybrid goes from retrieval to the planner.
C9_RagSkipsSql ==
    /\ tool_choice = RAG =>
         /\ runs["planner_node"] = 0
         /\ runs["sql_gen_node"] = 0
         /\ runs["executor_node"] = 0
         /\ state.sql_query = <<>>
         /\ prev = "retrieval_node" => pc = "synthesizer_node"
         /\ pc = "END" =>
              state.citations =
                  { state.retrieved_docs[i].doc_id :
                      i \in 1..Len(state.retrieved_docs) }
    /\ (tool_choice = HYBRID /\ prev = "retrieval_node")
         => pc = "planner_node"

\* The text raw is the word w in any letter case, with white space around it.
IsVariantOf(raw, w) ==
    \E i \in 1..Len(raw) :
        /\ i + Len(w) - 1 <= Len(raw)
        /\ \A k \in 1..Len(w) :
             raw[i + k - 1] = w[k]
             \/ \E u \in 1..Len(UpperCase) :
                  UpperCase[u] = raw[i + k - 1] /\ LowerCase[u] = w[k]
        /\ \A k \in 1..Len(raw) :
             (k < i \/ k > i + Len(w) - 1) => raw[k] \in Whitespace

\* C10: once the router has run, the route it wrote is rag, sql or hybrid:
\* the word its completion returned, in any case and with white space around
\* it, and hybrid for any other text, a missing field, a value that is no
\* string or a failed call; the graph goes on to its next node.
C10_RouterOutput ==
    router_out.kind # "pending" =>
        /\ tool_choice \in {RAG, SQL, HYBRID}
        /\ \A w \in {RAG, SQL, HYBRID} :
             (router_out.kind = "ok" /\ IsVariantOf(router_out.text, w))
                 => tool_choice = w
        /\ (router_out.kind # "ok"
            \/ \A w \in {RAG, SQL, HYBRID} : ~IsVariantOf(router_out.text, w))
               => tool_choice = HYBRID
        /\ prev = "router_node" => pc \in {"retrieval_node", "planner_node"}

\* The router has normalised a completion with capitals and white space.
C10_Witness ==
    /\ prev = "router_node"
    /\ router_out.kind = "ok"
    /\ router_out.text = <<" ", "S", "Q", "L", "\n">>
    /\ tool_choice = SQL

\* C11: from the router's step on, the route the branch functions read
\* from the state is the route the router wrote.
C11_RouteKept ==
    router_out.kind # "pending" =>
        (IF "route" \in DOMAIN state THEN state["route"] ELSE HYBRID)
            = tool_choice

\* C12: in every request the synthesizer runs exactly once, as the last step
\* before END, and the final answer, explanation, confidence and citations
\* are written by that step and by no other step.
C12_SynthesizerOnceAndLast ==
    /\ [](pc = "END" =>
            (runs["synthesizer_node"] = 1 /\ prev = "synthesizer_node"))
    /\ [](pc # "END" => runs["synthesizer_node"] = 0)
    /\ [][pc = "synthesizer_node" => pc' = "END"]_vars
    /\ [][pc \notin {"synthesizer_node", "END"} =>
            (/\ state'.final_answer = state.final_answer
             /\ state'.explanation = state.explanation
             /\ state'.confidence = state.confidence
             /\ state'.citations = state.citations)]_vars

\* A request has ended after a repair and a failed final execution.
C12_Witness ==
    /\ pc = "END"
    /\ runs["synthesizer_node"] = 1
    /\ runs["executor_node"] = 2
    /\ state.final_answer # ""
    /\ state.confidence = 3

\* The latest execution raised an exception inside execute_query.
ExecutionRaised ==
    \/ exec_out.raises = "execute"
    \/ exec_out.raises = "fetch" /\ exec_out.description # <<>>

\* C13: execute_query returns a record of columns, rows and error, and the
\* record of an execution that failed has a non-empty error, so that the
\* executor counts it and the branch after it sees it as failed.
C13_FailureRecognised ==
    prev = "executor_node" =>
        /\ DOMAIN state.sql_result = {"columns", "rows", "error"}
        /\ ExecutionRaised =>
             /\ state.sql_result.error # ""
             /\ failed_execs > 0

\* C14: a result of execute_query with a non-empty error has no columns and
\* no rows, also when the exception came after the result set had begun.
C14_ErrorMeansEmpty ==
    (prev = "executor_node" /\ state.sql_result.error # "") =>
        (state.sql_result.columns = <<>> /\ state.sql_result.rows = <<>>)

---------------------------------------------------------------------------
(* Answer coercion: parse_final_answer of run_agent_hybrid.py *)

\* A Python value: an int n, a float n / 10^e, a str s, or a list, tuple,
\* set or dict of items (a dict's items are pairs of key and value).  name
\* and neg are the nodes of a parsed literal that are not values yet.
Val(t, n, e, s, items) ==
    [t |-> t, n |-> n, e |-> e, s |-> s, items |-> items]
IntV(n) == Val("int", n, 0, <<>>, <<>>)
StrV(s) == Val("str", 0, 0, s, <<>>)
ListV(items) == Val("list", 0, 0, <<>>, items)
TupleV(items) == Val("tuple", 0, 0, <<>>, items)
PairV(k, v) == Val("pair", 0, 0, <<>>, <<k, v>>)
NoneV == Val("None", 0, 0, <<>>, <<>>)

\* float: 1.50 and 1.5 are the same number
RECURSIVE FloatV(_, _)
FloatV(n, e) ==
    IF e > 0 /\ n % 10 = 0 THEN FloatV(n \div 10, e - 1)
    ELSE Val("float", n, e, <<>>, <<>>)

SQ == "'"
DQ == "\""
Digits == <<"0", "1", "2", "3", "4", "5", "6", "7", "8", "9">>
Letters == {"a", "c"}
IsDigit(c) == \E d \in 1..10 : Digits[d] = c
DigitVal(c) == (CHOOSE d \in 1..10 : Digits[d] = c) - 1

\* int() of a run of digits
RECURSIVE digits_int(_)
digits_int(ds) ==
    IF ds = <<>> THEN 0
    ELSE 10 * digits_int(SubSeq(ds, 1, Len(ds) - 1)) + DigitVal(ds[Len(ds)])

\* int() of an optional minus sign and a run of digits
int_of(txt) ==
    IF txt[1] = "-" THEN 0 - digits_int(Tail(txt)) ELSE digits_int(txt)

\* The index after the run of digits that starts at i
RECURSIVE digits_end(_, _)
digits_end(s, i) ==
    IF i <= Len(s) /\ IsDigit(s[i]) THEN digits_end(s, i + 1) ELSE i

\* -?\d+ matches at i
match_at(s, i) ==
    IF s[i] = "-" THEN i + 1 <= Len(s) /\ IsDigit(s[i + 1])
    ELSE IsDigit(s[i])

\* The index of the leftmost match at or after i, 0 when there is none
RECURSIVE match_start(_, _)
match_start(s, i) ==
    IF i > Len(s) THEN 0
    ELSE IF match_at(s, i) THEN i
    ELSE match_start(s, i + 1)

\* The first run of digits, the pattern without its sign
first_int_text_unsigned(s) ==
    LET i == match_start(s, 1) IN
    IF i = 0 THEN <<>>
    ELSE LET d == IF s[i] = "-" THEN i + 1 ELSE i
         IN SubSeq(s, d, digits_end(s, d) - 1)

\* re.findall(r'-?\d+', s)[0]; the empty sequence stands for no match
first_int_text(s) ==
    LET i == match_start(s, 1) IN
    IF i = 0 THEN <<>>
    ELSE LET d == IF s[i] = "-" THEN i + 1 ELSE i
         IN SubSeq(s, i, digits_end(s, d) - 1)

\* re.findall(r'-?\d+\.?\d*', s)[0]
first_float_text(s) ==
    LET i == match_start(s, 1) IN
    IF i = 0 THEN <<>>
    ELSE LET d == IF s[i] = "-" THEN i + 1 ELSE i
             j == digits_end(s, d)
             k == IF j <= Len(s) /\ s[j] = "." THEN digits_end(s, j + 1)
                  ELSE j
         IN SubSeq(s, i, k - 1)

\* float() of an optional minus sign, digits, and optionally a point and
\* more digits
float_of(txt) ==
    LET neg == txt[1] = "-"
        body == IF neg THEN Tail(txt) ELSE txt
        j == digits_end(body, 1)
        frac == IF j <= Len(body) THEN SubSeq(body, j + 1, Len(body))
                ELSE <<>>
        n == digits_int(SubSeq(body, 1, j - 1) \o frac)
    IN FloatV(IF neg THEN 0 - n ELSE n, Len(frac))

\* s.split(','): the pieces between the commas
RECURSIVE split_comma(_, _)
split_comma(s, piece) ==
    IF s = <<>> THEN <<piece>>
    ELSE IF Head(s) = "," THEN <<piece>> \o split_comma(Tail(s), <<>>)
    ELSE split_comma(Tail(s), Append(piece, Head(s)))

\* [item.strip() for item in answer_str.split(',')]
split_items(s) ==
    LET pieces == split_comma(s, <<>>)
    IN ListV([p \in 1..Len(pieces) |-> StrV(strip(pieces[p]))])

\* The grammar of json.loads and of ast.literal_eval over the characters of
\* AnswerChars: numbers, quoted strings without escapes, names, and lists,
\* tuples, sets and dicts of them.  A parse returns the node read and the
\* index after it; comma tells whether a sequence of items had a comma.
Fail == [st |-> "fail", v |-> NoneV, i |-> 0, comma |-> FALSE]
Ok(v, i, comma) == [st |-> "ok", v |-> v, i |-> i, comma |-> comma]

RECURSIVE skip_ws(_, _)
skip_ws(s, i) ==
    IF i <= Len(s) /\ s[i] = " " THEN skip_ws(s, i + 1) ELSE i

\* The index of the first c at or after i, 0 when there is none
RECURSIVE find_char(_, _, _)
find_char(s, c, i) ==
    IF i > Len(s) THEN 0
    ELSE IF s[i] = c THEN i
    ELSE find_char(s, c, i + 1)

\* The element of a one-element set: The({e(x) : x \in {v}}) is e(v), with v
\* computed once.
The(S) == CHOOSE x \in S : TRUE

\* A string literal at i; literal_eval joins adjacent string literals.
RECURSIVE parse_string(_, _, _)
parse_string(mode, s, i) ==
    LET j == find_char(s, s[i], i + 1)
        k == skip_ws(s, j + 1)
    IN IF j = 0 THEN Fail
       ELSE IF mode = "literal" /\ k <= Len(s) /\ s[k] \in {SQ, DQ}
       THEN The({ IF more.st = "ok"
                  THEN Ok(StrV(SubSeq(s, i + 1, j - 1) \o more.v.s),
                          more.i, FALSE)
                  ELSE Fail : more \in {parse_string(mode, s, k)} })
       ELSE Ok(StrV(SubSeq(s, i + 1, j - 1)), j + 1, FALSE)

\* A number at i.  JSON allows no leading zero and needs a digit after the
\* point; a Python int literal allows leading zeros only in a zero.
parse_number(mode, s, i) ==
    LET j == digits_end(s, i)
        point == j <= Len(s) /\ s[j] = "."
        k == digits_end(s, j + 1)
        whole == SubSeq(s, i, j - 1)
        leading_zero == Len(whole) > 1 /\ whole[1] = "0"
    IN IF point
       THEN IF mode = "json" /\ (leading_zero \/ k = j + 1) THEN Fail
            ELSE Ok(FloatV(digits_int(whole \o SubSeq(s, j + 1, k - 1)),
                           k - 1 - j), k, FALSE)
       ELSE IF leading_zero /\ (mode = "json" \/ digits_int(whole) # 0)
            THEN Fail
            ELSE Ok(IntV(digits_int(whole)), j, FALSE)

\* The index after the name that starts at i
RECURSIVE name_end(_, _)
name_end(s, i) ==
    IF i <= Len(s) /\ (s[i] \in Letters \/ IsDigit(s[i]))
    THEN name_end(s, i + 1) ELSE i

IsPair(v) == v.t = "pair"

\* What the items between two brackets make: a list, a tuple or the one
\* expression between parentheses, a dict or a set
bracketed(mode, open, r) ==
    LET items == r.v.items
        pairs == \A p \in 1..Len(items) : IsPair(items[p])
        plain == \A p \in 1..Len(items) : ~IsPair(items[p])
    IN IF r.st # "ok" THEN Fail
       ELSE IF open = "[" THEN Ok(ListV(items), r.i, FALSE)
       ELSE IF open = "("
       THEN IF Len(items) = 1 /\ ~r.comma THEN Ok(items[1], r.i, FALSE)
            ELSE Ok(TupleV(items), r.i, FALSE)
       ELSE IF pairs
       THEN IF mode = "json"
               /\ \E p \in 1..Len(items) : items[p].items[1].t # "str"
            THEN Fail
            ELSE Ok(Val("dict", 0, 0, <<>>, items), r.i, FALSE)
       ELSE IF plain /\ mode = "literal"
       THEN Ok(Val("set", 0, 0, <<>>, items), r.i, FALSE)
       ELSE Fail

Closing(open) == IF open = "[" THEN "]" ELSE IF open = "(" THEN ")" ELSE "}"

\* JSON's minus sign belongs to the number after it
negative(r) ==
    IF r.st = "ok" THEN Ok(Val(r.v.t, 0 - r.v.n, r.v.e, <<>>, <<>>), r.i, FALSE)
    ELSE Fail

\* Python's minus sign is an operator on the expression after it
negated(r) ==
    IF r.st = "ok" THEN Ok(Val("neg", 0, 0, <<>>, <<r.v>>), r.i, FALSE)
    ELSE Fail

RECURSIVE parse_value(_, _, _), parse_items(_, _, _, _, _, _),
          items_after(_, _, _, _, _, _), items_next(_, _, _, _, _)

\* One value at or after i0
parse_value(mode, s, i0) ==
    LET i == skip_ws(s, i0) IN
    IF i > Len(s) THEN Fail
    ELSE IF s[i] \in {"[", "{"} \/ (s[i] = "(" /\ mode = "literal")
    THEN The({ bracketed(mode, s[i], r) :
               r \in {parse_items(mode, s, i + 1, Closing(s[i]), <<>>,
                                  FALSE)} })
    ELSE IF s[i] = DQ \/ (s[i] = SQ /\ mode = "literal")
    THEN parse_string(mode, s, i)
    ELSE IF IsDigit(s[i]) THEN parse_number(mode, s, i)
    ELSE IF s[i] = "-" /\ mode = "json"
    THEN IF i + 1 <= Len(s) /\ IsDigit(s[i + 1])
         THEN negative(parse_number(mode, s, i + 1))
         ELSE Fail
    ELSE IF s[i] = "-"
    THEN The({ negated(r) : r \in {parse_value(mode, s, i + 1)} })
    ELSE IF s[i] \in Letters /\ mode = "literal"
    THEN Ok(Val("name", 0, 0, SubSeq(s, i, name_end(s, i) - 1), <<>>),
            name_end(s, i), FALSE)
    ELSE Fail

\* The items up to the closing character (up to the end of the text when
\* close is ""), acc holding the items read so far.  after_comma: a comma
\* came just before.
parse_items(mode, s, i0, close, acc, after_comma) ==
    LET i == skip_ws(s, i0)
        done == Ok(ListV(acc), i + 1, after_comma \/ Len(acc) > 1)
    IN IF i > Len(s)
       THEN IF close = "" /\ acc # <<>> THEN done ELSE Fail
       ELSE IF close # "" /\ s[i] = close
       THEN IF after_comma /\ mode = "json" THEN Fail ELSE done
       ELSE The({ items_after(mode, s, close, acc, first, skip_ws(s, first.i))
                  : first \in {parse_value(mode, s, i)} })

\* The value first has been read and c is the index of what follows it:
\* between braces a colon makes it the key of a pair.
items_after(mode, s, close, acc, first, c) ==
    IF first.st # "ok" THEN Fail
    ELSE IF close = "}" /\ c <= Len(s) /\ s[c] = ":"
    THEN The({ IF second.st # "ok" THEN Fail
               ELSE items_next(mode, s, close,
                               Append(acc, PairV(first.v, second.v)),
                               skip_ws(s, second.i))
               : second \in {parse_value(mode, s, c + 1)} })
    ELSE items_next(mode, s, close, Append(acc, first.v), c)

\* The items of acc have been read and j is the index of what follows them:
\* a comma, the closing character or the end of the text.
items_next(mode, s, close, acc, j) ==
    IF j <= Len(s) /\ s[j] = ","
    THEN parse_items(mode, s, j + 1, close, acc, TRUE)
    ELSE IF j > Len(s)
    THEN IF close = "" THEN Ok(ListV(acc), j, Len(acc) > 1) ELSE Fail
    ELSE IF close # "" /\ s[j] = close
    THEN Ok(ListV(acc), j + 1, Len(acc) > 1)
    ELSE Fail

\* Python's == on values: an int equals the float of the same number
RECURSIVE PyEq(_, _)
PyEq(a, b) ==
    \/ a = b
    \/ /\ a.t \in {"int", "float"} /\ b.t \in {"int", "float"}
       /\ a.n = b.n /\ a.e = b.e
    \/ /\ a.t = "tuple" /\ b.t = "tuple" /\ Len(a.items) = Len(b.items)
       /\ \A p \in 1..Len(a.items) : PyEq(a.items[p], b.items[p])

\* hash(v) is defined: lists, sets and dicts have no hash
RECURSIVE Hashable(_)
Hashable(v) ==
    \/ v.t \in {"int", "float", "str"}
    \/ v.t = "tuple" /\ \A p \in 1..Len(v.items) : Hashable(v.items[p])

\* d[k] = v on the pairs of a dict
dict_put(pairs, k, v) ==
    IF \E p \in 1..Len(pairs) : PyEq(pairs[p].items[1], k)
    THEN [p \in 1..Len(pairs) |->
            IF PyEq(pairs[p].items[1], k)
            THEN PairV(pairs[p].items[1], v) ELSE pairs[p]]
    ELSE Append(pairs, PairV(k, v))

\* s.add(e) on the elements of a set
set_add(elems, e) ==
    IF \E p \in 1..Len(elems) : PyEq(elems[p], e) THEN elems
    ELSE Append(elems, e)

\* The outcome of a conversion: a value, a failure the caller's except
\* clause names (JSONDecodeError, ValueError, SyntaxError), or a TypeError.
Done(v) == [st |-> "ok", v |-> v]
Caught == [st |-> "fail", v |-> NoneV]
Raised == [st |-> "raise", v |-> NoneV]

RECURSIVE convert(_), convert_items(_, _, _, _), put_item(_, _, _, _, _, _)

\* ast.literal_eval's _convert: the value of a parsed node.  A name is a
\* malformed node (ValueError), a minus sign needs a number under it, and a
\* key of a dict or an element of a set is hashed when it is put in.
convert(node) ==
    IF node.t \in {"int", "float", "str"} THEN Done(node)
    ELSE IF node.t = "neg"
    THEN IF node.items[1].t \in {"int", "float"}
         THEN Done(Val(node.items[1].t, 0 - node.items[1].n,
                       node.items[1].e, <<>>, <<>>))
         ELSE Caught
    ELSE IF node.t \in {"list", "tuple", "set", "dict"}
    THEN The({ IF r.st = "ok" THEN Done(Val(node.t, 0, 0, <<>>, r.v.items))
               ELSE r : r \in {convert_items(node.t, node.items, 1, <<>>)} })
    ELSE Caught

\* The items from the p-th on, converted in order after those in acc
convert_items(kind, items, p, acc) ==
    IF p > Len(items) THEN Done(ListV(acc))
    ELSE IF kind = "dict"
    THEN The({ put_item(kind, items, p, acc, k, v) :
               k \in {convert(items[p].items[1])},
               v \in {convert(items[p].items[2])} })
    ELSE The({ put_item(kind, items, p, acc, e, e) :
               e \in {convert(items[p])} })

\* The p-th item has been converted, to the key k and the value v of a dict,
\* or to the element k
put_item(kind, items, p, acc, k, v) ==
    IF k.st # "ok" THEN k
    ELSE IF v.st # "ok" THEN v
    ELSE IF kind \in {"dict", "set"} /\ ~Hashable(k.v) THEN Raised
    ELSE IF kind = "dict"
    THEN The({ convert_items(kind, items, p + 1, a) :
               a \in {dict_put(acc, k.v, v.v)} })
    ELSE IF kind = "set"
    THEN The({ convert_items(kind, items, p + 1, a) :
               a \in {set_add(acc, k.v)} })
    ELSE The({ convert_items(kind, items, p + 1, a) :
               a \in {Append(acc, k.v)} })

\* json.loads of a text
json_loads(s) ==
    The({ IF r.st = "ok" /\ skip_ws(s, r.i) > Len(s) THEN convert(r.v)
          ELSE Caught : r \in {parse_value("json", s, 1)} })

\* ast.literal_eval of a text: one expression, or a tuple without brackets
literal_eval(s) ==
    The({ IF r.st # "ok" THEN Caught
          ELSE IF Len(r.v.items) = 1 /\ ~r.comma THEN convert(r.v.items[1])
          ELSE convert(TupleV(r.v.items))
          : r \in {parse_items("literal", s, 1, "", <<>>, FALSE)} })

HintInt == <<"i", "n", "t">>
HintFloat == <<"f", "l", "o", "a", "t">>
HintList == <<"l", "i", "s", "t">>
HintDict == <<"d", "i", "c", "t">>

\* The try statement of the list and of the dict branch
structured(answer_str, open) ==
    IF startswith(answer_str, <<open>>) THEN json_loads(answer_str)
    ELSE literal_eval(answer_str)

\* parse_final_answer: the value returned, or the exception that leaves it
parse_final_answer(answer_text, format_hint) ==
    LET answer_str == strip(answer_text)
        hint == lower(format_hint)
    IN IF hint = HintInt
       THEN IF first_int_text(answer_str) # <<>>
            THEN Done(IntV(int_of(first_int_text(answer_str))))
            ELSE Done(IntV(0))
       ELSE IF hint = HintFloat
       THEN IF first_float_text(answer_str) # <<>>
            THEN Done(float_of(first_float_text(answer_str)))
            ELSE Done(FloatV(0, 0))
       ELSE IF contains(hint, HintList)
       THEN LET r == structured(answer_str, "[")
            IN IF r.st # "fail" THEN r
               ELSE IF contains(answer_str, <<",">>)
               THEN Done(split_items(answer_str))
               ELSE Done(ListV(<<StrV(answer_str)>>))
       ELSE IF contains(hint, HintDict)
       THEN LET r == structured(answer_str, "{")
            IN IF r.st # "fail" THEN r
               ELSE Done(Val("dict", 0, 0, <<>>,
                             <<PairV(StrV(<<"v", "a", "l", "u", "e">>),
                                     StrV(answer_str))>>))
       ELSE Done(StrV(answer_str))

---------------------------------------------------------------------------
(* process_question of run_agent_hybrid.py: the graph is run by app.invoke,
   the final answer is coerced, and the output record is built *)

\* The format hints of the requests
FormatHintTexts ==
    {
      <<"i", "n", "t">>,
      <<"I", "N", "T">>,
      <<"I", "n", "t">>,
      <<"f", "l", "o", "a", "t">>,
      <<"F", "L", "O", "A", "T">>,
      <<"l", "i", "s", "t">>,
      <<"l", "i", "s", "t", "[", "s", "t", "r", "]">>,
      <<"L", "i", "s", "t", "[", "i", "n", "t", "]">>,
      <<"d", "i", "c", "t">>,
      <<"D", "I", "C", "T">>,
      <<"d", "i", "c", "t", "[", "s", "t", "r", ",", "i", "n", "t", "]">>,
      <<"l", "i", "s", "t", "[", "d", "i", "c", "t", "]">>,
      <<"s", "t", "r", "i", "n", "g">>,
      <<"s", "t", "r">>,
      <<" ", "i", "n", "t">>,
      <<"i", "n", "t", "e", "g", "e", "r">> }

HintString == <<"s", "t", "r", "i", "n", "g">>

\* Answer texts: numbers in prose, JSON and Python literals, well formed and
\* not, with whitespace around them
SampleTexts ==
    {
      <<>>,
      <<"7">>,
      <<"-", "1", "2">>,
      <<"a", " ", "-", "1", "2", " ", "c", " ", "7">>,
      <<"c", "a">>,
      <<"3", ".", "7">>,
      <<"-", "-", "5">>,
      <<"-">>,
      <<"a", "-">>,
      <<"1", ",", "2", "3", "4">>,
      <<" ", "4", "2", "\n">>,
      <<"0", "0", "7">>,
      <<"1", ".", "5", "0">>,
      <<"1", ".">>,
      <<"a", "-", "2", ".", "5", ".", "3">>,
      <<"[", "1", ",", " ", "2", "]">>,
      <<"[", "'", "a", "'", ",", " ", "'", "c", "'", "]">>,
      <<"[", "'", "a", "'", "]">>,
      <<"[", "\"", "a", "\"", ",", " ", "\"", "c", "\"", "]">>,
      <<"[", "]">>,
      <<"[", "1", ",", "]">>,
      <<"[", " ", "1", " ", "]">>,
      <<"[", "-", "1", "]">>,
      <<"[", "-", " ", "1", "]">>,
      <<"[", "0", "1", "]">>,
      <<"[", "1", ".", "5", "]">>,
      <<"[", "[", "1", "]", ",", " ", "[", "]", "]">>,
      <<"[", "1">>,
      <<"a", ",", " ", "c">>,
      <<"1", ",", " ", "2">>,
      <<"'", "a", "'", ",", " ", "'", "c", "'">>,
      <<"'", "a", "'">>,
      <<"\"", "a", "\"">>,
      <<"'", "a", "'", " ", "'", "c", "'">>,
      <<"(", "1", ")">>,
      <<"(", "1", ",", ")">>,
      <<"(", ")">>,
      <<"(", "1", ",", " ", "2", ")">>,
      <<"{", "1", "}">>,
      <<"{", "}">>,
      <<"{", "1", ":", " ", "2", "}">>,
      <<"{", "'", "a", "'", ":", " ", "1", "}">>,
      <<"{", "\"", "a", "\"", ":", " ", "1", "}">>,
      <<"{", "\"", "a", "\"", ":", " ", "1", ",", " ", "\"", "a", "\"", ":", " ", "2", "}">>,
      <<"{", "1", ":", " ", "2", ",", " ", "1", ":", " ", "3", "}">>,
      <<"{", "\"", "a", "\"", ":", " ", "[", "1", "]", "}">>,
      <<"{", "(", "1", ",", " ", "2", ")", ":", " ", "3", "}">>,
      <<"{", "[", "1", "]", ":", " ", "2", "}">>,
      <<"{", "{", "}", "}">>,
      <<"[", "{", "[", "1", "]", "}", "]">>,
      <<"{", "(", "[", "1", "]", ",", " ", "2", ")", ":", " ", "3", "}">>,
      <<"{", "[", "1", "]", ":", " ", "a", "}">>,
      <<"{", "[", "1", "]", ",", " ", "a", "}">>,
      <<"{", "1", ":", " ", "2", ",", " ", "3", "}">>,
      <<"1", " ", "2">>,
      <<"'", "a">>,
      <<"1", ":", "2">>,
      <<"a">>,
      <<",">>,
      <<"0", "0">>,
      <<"0", "1">>,
      <<"-", " ", "1">>,
      <<"-", "-", "1">>,
      <<"-", "'", "a", "'">>,
      <<"1", ".", "5">>,
      <<"{", "1", ":", " ", "2", ",", " ", "1", ".", "0", ":", " ", "3", "}">>,
      <<"{", "\"", "a", "\"", ":", " ", "0", "1", "}">>,
      <<"[", "1", ",", " ", "'", "a", "'", "]">>,
      <<"{", "1", ":", " ", "2", ",", "}">>,
      <<"[", "1", "]", " ", "a">>,
      <<"[", "1", "]", "]">>,
      <<"\t", "[", "1", ",", " ", "2", "]", " ">>,
      <<"{", "1", ":", " ", "[", "2", "]", "}">>,
      <<"[", "{", "}", "]">>,
      <<"{", "'", "a", "'", ":", " ", "{", "1", "}", "}">>,
      <<"-", "(", "1", ")">>,
      <<"-", "1", ".", "5">>,
      <<"[", "-", "1", ".", "5", ",", " ", "0", "]">>,
      <<"[", "1", ".", "]">>,
      <<"{", "1", ",", " ", "1", ".", "0", ",", " ", "1", "}">>,
      <<"{", "(", "1", ",", ")", ":", " ", "2", ",", " ", "(", "1", ".", "0", ",", ")", ":", " ", "3", "}">> }

\* The values whose str() is given back to the coercion
MaxInt == 12
MaxListLen == 2
ListInts == {-3, 0, MaxInt}
ListStrs == {<<"a">>, <<"c", "a">>}
Lists(S, n) == UNION {[1..k -> S] : k \in 0..n}
RoundTripInts == (0 - MaxInt)..MaxInt
RoundTripLists ==
    Lists({IntV(n) : n \in ListInts}, MaxListLen)
        \cup Lists({StrV(s) : s \in ListStrs}, MaxListLen)

\* str() of a natural number, of an int
RECURSIVE nat_text(_)
nat_text(n) ==
    IF n < 10 THEN <<Digits[n + 1]>>
    ELSE nat_text(n \div 10) \o <<Digits[(n % 10) + 1]>>
str_int(x) == IF x < 0 THEN <<"-">> \o nat_text(0 - x) ELSE nat_text(x)

\* repr() of an int or of a str without quotes in it
repr_value(v) == IF v.t = "int" THEN str_int(v.n) ELSE <<SQ>> \o v.s \o <<SQ>>

\* ', '.join of the items' repr()
RECURSIVE join_items(_)
join_items(items) ==
    IF items = <<>> THEN <<>>
    ELSE IF Len(items) = 1 THEN repr_value(items[1])
    ELSE repr_value(items[1]) \o <<",", " ">> \o join_items(Tail(items))

\* str() of a list
str_list(items) == <<"[">> \o join_items(items) \o <<"]">>

AnswerTexts ==
    SampleTexts \cup {str_int(x) : x \in RoundTripInts}
        \cup {str_list(l) : l \in RoundTripLists}

\* The requests of a batch: with an id and a format hint, or without them
QuestionObjs ==
    {[id |-> "q1", question |-> "q1", format_hint |-> h] :
        h \in FormatHintTexts}
        \cup {[question |-> "q2"]}

\* What app.invoke can do: return the final state of the graph, or raise
InvokeOutcomes ==
    {[raises |-> FALSE, final_answer |-> a] : a \in AnswerTexts}
        \cup {[raises |-> TRUE, final_answer |-> <<>>]}

ErrorAnswer ==
    <<"E", "r", "r", "o", "r", ":", " ", "s", "e", "a", "r", "c", "h", " ",
      "f", "a", "i", "l", "e", "d">>

\* process_question, lines 108-115: the graph is run; an exception of it is
\* turned into an error answer on the initial state.
invoke_state(o) ==
    IF o.raises
    THEN [final_answer |-> ErrorAnswer, sql_query |-> <<>>,
          confidence |-> 0,
          explanation |-> "An error occurred during processing.",
          citations |-> {}]
    ELSE [final_answer |-> o.final_answer, sql_query |-> SelectOne,
          confidence |-> ConfNoDocs,
          explanation |-> "Counted the orders", citations |-> {}]

app_invoke ==
    /\ stage = "invoke"
    /\ \E o \in InvokeOutcomes : final_state' = invoke_state(o)
    /\ stage' = "parse"
    /\ UNCHANGED <<gvars, svars, bvars, question_obj, output>>

\* process_question, lines 118-133: the answer is coerced outside the try
\* statement, so an exception of parse_final_answer leaves process_question.
make_result(obj, fs) ==
    LET parsed == parse_final_answer(
                      fs.final_answer,
                      DictGet(obj, "format_hint", HintString))
    IN IF parsed.st = "raise" THEN NoResult
       ELSE [id |-> DictGet(obj, "id", "unknown"),
             final_answer |-> parsed.v,
             sql |-> fs.sql_query,
             confidence |-> fs.confidence,
             explanation |-> fs.explanation,
             citations |-> fs.citations]

build_result ==
    /\ stage = "parse"
    /\ output' = make_result(question_obj, final_state)
    /\ stage' = IF output' = NoResult THEN "raised" ELSE "return"
    /\ UNCHANGED <<gvars, svars, bvars, question_obj, final_state>>

\* main, lines 162-172: the next line of the batch is processed
next_question ==
    /\ stage = "return"
    /\ question_obj' \in QuestionObjs
    /\ final_state' = NoState
    /\ stage' = "invoke"
    /\ output' = NoResult
    /\ UNCHANGED <<gvars, svars, bvars>>

\* process_question has been called with the first request of a batch; the
\* graph is the one of Init.
ProcessInit ==
    /\ chunks = <<>>
    /\ bm25 = NoIndex
    /\ state = initial_state("q1", "string")
    /\ pc = "router_node"
    /\ prev = "START"
    /\ runs = [n \in Nodes |-> 0]
    /\ failed_execs = 0
    /\ router_out = NoCompletion
    /\ tool_choice = NoRoute
    /\ constraints = NoConstraints
    /\ sql_data = NoCall
    /\ exec_out = NoExecution
    /\ gen_failed = FALSE
    /\ SearchIdle
    /\ ToolsIdle
    /\ BatchIdle
    /\ question_obj \in QuestionObjs
    /\ final_state = NoState
    /\ stage = "invoke"
    /\ output = NoResult

ProcessNext == app_invoke \/ build_result \/ next_question

ProcessSpec == ProcessInit /\ [][ProcessNext]_vars

---------------------------------------------------------------------------
(* Properties of process_question and of the coercion *)

\* The format hint process_question passes to the coercion
TheHint == DictGet(question_obj, "format_hint", HintString)

\* C15: processing a request always ends with an output record of the
\* fields id, final_answer, sql, confidence, explanation and citations; no
\* exception leaves process_question.
C15_AlwaysARecord ==
    stage \notin {"invoke", "parse"} =>
        /\ stage = "return"
        /\ DOMAIN output = {"id", "final_answer", "sql", "confidence",
                            "explanation", "citations"}

\* C16: the coercion raises for no answer text and no format hint.
C16_CoercionNeverRaises ==
    stage = "parse" =>
        parse_final_answer(final_state.final_answer, TheHint).st = "ok"

\* The last stage of the list cascade: the pieces between commas, or the
\* whole text as the one element
ListFallback(s) ==
    IF contains(s, <<",">>) THEN split_items(s) ELSE ListV(<<StrV(s)>>)

\* The list cascade as stated: the JSON array, else the Python literal, else
\* the fallback
ListCascade(s) ==
    IF json_loads(s).st = "ok" /\ json_loads(s).v.t = "list"
    THEN json_loads(s).v
    ELSE IF literal_eval(s).st = "ok" THEN literal_eval(s).v
    ELSE ListFallback(s)

\* C17: for a hint containing list the coercion returns what the cascade
\* JSON array, literal, comma split, one element gives for the trimmed text.
C17_ListCascade ==
    (stage = "return" /\ contains(lower(TheHint), HintList)) =>
        output.final_answer = ListCascade(strip(final_state.final_answer))

\* txt is an optional minus sign followed by one or more digits
IsSignedInt(txt) ==
    LET ds == IF txt # <<>> /\ txt[1] = "-" THEN Tail(txt) ELSE txt
    IN ds # <<>> /\ \A p \in 1..Len(ds) : IsDigit(ds[p])

\* The number a run of digits writes, from its first digit on
RECURSIVE DigitsValue(_, _)
DigitsValue(ds, n) ==
    IF ds = <<>> THEN n ELSE DigitsValue(Tail(ds), 10 * n + DigitVal(ds[1]))

SignedValue(txt) ==
    IF txt[1] = "-" THEN 0 - DigitsValue(Tail(txt), 0)
    ELSE DigitsValue(txt, 0)

\* The spans of s that are signed integers
IntSpans(s) ==
    {sp \in (1..Len(s)) \X (1..Len(s)) :
        sp[1] <= sp[2] /\ IsSignedInt(SubSeq(s, sp[1], sp[2]))}

\* The first signed integer substring: the span that starts first and, of
\* those, ends last
FirstInt(s) ==
    CHOOSE sp \in IntSpans(s) :
        \A other \in IntSpans(s) :
            \/ sp[1] < other[1]
            \/ sp[1] = other[1] /\ sp[2] >= other[2]

\* C18: for the hint int, in any letter case, the coercion returns the value
\* of the first signed integer substring of the answer text, and 0 when the
\* text has none.
C18_FirstSignedInt ==
    (stage = "return" /\ lower(TheHint) = HintInt) =>
        LET s == final_state.final_answer
        IN output.final_answer =
             IF IntSpans(s) = {} THEN IntV(0)
             ELSE IntV(SignedValue(SubSeq(s, FirstInt(s)[1], FirstInt(s)[2])))

\* The hint INT has taken -12 out of a text that goes on with another number.
C18_Witness ==
    /\ stage = "return"
    /\ TheHint = <<"I", "N", "T">>
    /\ final_state.final_answer =
         <<"a", " ", "-", "1", "2", " ", "c", " ", "7">>
    /\ output.final_answer = IntV(-12)

\* The dict cascade as stated: the JSON object, else the Python literal, else
\* the text under the key value
DictCascade(s) ==
    IF json_loads(s).st = "ok" /\ json_loads(s).v.t = "dict"
    THEN json_loads(s).v
    ELSE IF literal_eval(s).st = "ok" THEN literal_eval(s).v
    ELSE Val("dict", 0, 0, <<>>,
             <<PairV(StrV(<<"v", "a", "l", "u", "e">>), StrV(s))>>)

\* C19: for a hint containing dict (and not list, which comes first) the
\* coercion returns what the cascade JSON object, literal, {"value": text}
\* gives for the trimmed text.
C19_DictCascade ==
    (/\ stage = "return"
     /\ contains(lower(TheHint), HintDict)
     /\ ~contains(lower(TheHint), HintList)) =>
        output.final_answer = DictCascade(strip(final_state.final_answer))

\* C20: the coercion gives back every int from its str() under the hint int
\* and every list of ints or of strings from its str() under the hint list.
C20_RoundTrip ==
    stage = "return" =>
        /\ \A x \in RoundTripInts :
             (TheHint = HintInt /\ final_state.final_answer = str_int(x))
                 => output.final_answer = IntV(x)
        /\ \A l \in RoundTripLists :
             (TheHint = HintList /\ final_state.final_answer = str_list(l))
                 => output.final_answer = ListV(l)

\* The citations of the tables whose names occur in the query of the state.
TablesInQuery ==
    { Tables[i].cite :
        i \in { j \in 1..Len(Tables) :
                  contains(state.sql_query, Tables[j].name) } }

\* The identifiers of the retrieved documents of the state.
RetrievedIds ==
    { state.retrieved_docs[i].doc_id : i \in 1..Len(state.retrieved_docs) }

\* C23: at END the citations are the identifiers of the retrieved documents
\* and, only when the final execution did not fail, the citation of every
\* known table whose name occurs in the executed query.
C23_Citations ==
    pc = "END" =>
        state.citations =
            RetrievedIds \cup (IF ExecutionRaised THEN {} ELSE TablesInQuery)

\* C24: whenever the executor is about to run, the query in the state is not
\* empty, and after a first generation whose completion call failed it is the
\* constant select.
C24_QueryToExecute ==
    pc = "executor_node" =>
        /\ state.sql_query # <<>>
        /\ (gen_failed /\ runs["sql_gen_node"] = 1)
               => state.sql_query = SelectOne

\* The completion call of the synthesizer raising.
SynthFailure ==
    [kind |-> "raise", has_answer |-> FALSE, has_explanation |-> FALSE]

\* C25: a synthesizer step whose completion call raised ends the request
\* with the fixed error answer, the text of the exception as explanation, and
\* a confidence that is neither 0.7 nor 0.9.
C25_SynthesisFailure ==
    [][(/\ pc = "synthesizer_node"
        /\ ~synthesizer_raises(state)
        /\ state' = ChannelUpdate(state,
                                  synthesizer_result(state, SynthFailure)))
       => /\ state'.final_answer = "Error generating answer"
          /\ state'.explanation = "completion failed"
          /\ state'.confidence \notin {ConfNoDocs, ConfWithDocs}]_vars

\* C26: an execution that fails with the error count at the cap is followed
\* by the synthesizer, and the request then ends with the error message of
\* that execution in the synthesizer's SQL data and with confidence 0.3.
C26_RepairExhaustion ==
    /\ (/\ prev = "executor_node"
        /\ FinalResultFailed
        /\ state.error_count >= RetryCap) => pc = "synthesizer_node"
    /\ (pc = "END" /\ FinalResultFailed) =>
         /\ state.error_count >= RetryCap
         /\ sql_data.kind = "SQL Error"
         /\ sql_data.error = exec_out.msg
         /\ exec_out.msg # ""
         /\ state.confidence = ConfSqlError

\* A request has ended after its second execution failed like its first.
C26_Witness ==
    /\ pc = "END"
    /\ runs["executor_node"] = 2
    /\ state.error_count = RetryCap
    /\ sql_data.error = "integer overflow"
    /\ state.confidence = ConfSqlError

\* C27: a request in which a completion call of the SQL generator failed
\* ends with a confidence below 0.7.
C27_GenerationFailureDegrades ==
    (pc = "END" /\ gen_failed) => state.confidence < ConfNoDocs

\* C30: the SQL generator entered from the executor gets the guidance with
\* the query that just failed and the error message of its execution; entered
\* from anywhere else it gets the guidance alone; and it is entered from the
\* executor only after an execution that failed.
C30_Constraints ==
    /\ [][pc = "sql_gen_node" =>
            constraints' =
                IF prev = "executor_node"
                THEN [guidance |-> TRUE, repair |-> TRUE,
                      previous_query |-> state.sql_query,
                      error_msg |-> exec_out.msg]
                ELSE [guidance |-> TRUE, repair |-> FALSE,
                      previous_query |-> <<>>, error_msg |-> ""]]_vars
    /\ []((pc = "sql_gen_node" /\ prev = "executor_node")
            => (ExecutionRaised /\ exec_out.msg # ""))
    /\ []((pc = "sql_gen_node" /\ prev # "executor_node")
            => (runs["sql_gen_node"] = 0 /\ runs["executor_node"] = 0))

\* The generator has been entered again after "SELECT x" failed.
C30_Witness ==
    /\ prev = "sql_gen_node"
    /\ runs["sql_gen_node"] = 2
    /\ constraints.repair
    /\ constraints.previous_query = <<"S", "E", "L", "E", "C", "T", " ", "x">>
    /\ constraints.error_msg = "no such column: x"

\* The second execution of the request succeeded; it was made because the
\* first one had failed.
RepairedOnce == runs["executor_node"] = 2 /\ exec_out.raises = "no"

\* The parts of the repair scenario that do not depend on the synthesizer:
\* the generator is re-entered with error count 1, and the second execution,
\* once it has succeeded, is followed by the synthesizer with the count
\* still 1, which it still is at END after one run of the synthesizer.
RepairPath ==
    /\ (pc = "sql_gen_node" /\ prev = "executor_node"
        /\ runs["executor_node"] = 1) => state.error_count = 1
    /\ (RepairedOnce /\ prev = "executor_node") =>
         /\ pc = "synthesizer_node"
         /\ runs["sql_gen_node"] = 2
         /\ state.error_count = 1
    /\ (RepairedOnce /\ pc = "END") =>
         /\ runs["synthesizer_node"] = 1
         /\ runs["sql_gen_node"] = 2
         /\ state.error_count = 1
         /\ state.sql_result.error = ""

\* C31 as claimed: after a failed first and a successful second execution the
\* synthesizer has seen the rows of the second result and the confidence is
\* 0.7 or 0.9.
C31_RepairScenario ==
    /\ RepairPath
    /\ (RepairedOnce /\ pc = "END") =>
         /\ sql_data.kind = "json"
         /\ sql_data.rows = state.sql_result.rows
         /\ state.confidence \in {ConfNoDocs, ConfWithDocs}

\* C31 amended: the same, except that a second result holding a value that
\* cannot be written as JSON makes the synthesizer's processing raise before
\* its completion call, and the confidence is then 0.1.
C31_RepairScenarioOrBlob ==
    /\ RepairPath
    /\ (RepairedOnce /\ pc = "END") =>
         IF FinalResultHasBlob
         THEN sql_data = NoCall /\ state.confidence = ConfSynthError
         ELSE /\ sql_data.kind = "json"
              /\ sql_data.rows = state.sql_result.rows
              /\ state.confidence \in {ConfNoDocs, ConfWithDocs}

\* A request has ended after one repair whose second result had a row.
C31_Witness ==
    /\ pc = "END"
    /\ RepairedOnce
    /\ state.sql_result.rows = << <<"14">> >>
    /\ state.error_count = 1
    /\ state.confidence = ConfWithDocs

\* C34: once a query has been executed and the synthesizer is next or has
\* run, the query in the state is the one executed last and the result in
\* the state is what that execution returned; the SQL data the synthesizer
\* was given were made from this result.
C34_ResultOfFinalQuery ==
    (pc \in {"synthesizer_node", "END"} /\ runs["executor_node"] > 0) =>
        /\ exec_out.sql = state.sql_query
        /\ state.sql_result = execute_query(state.sql_query, exec_out)
        /\ (pc = "END" /\ sql_data # NoCall) => sql_data = make_sql_data(state)

\* A request has ended after a second query, other than the first, returned
\* a row.
C34_Witness ==
    /\ pc = "END"
    /\ runs["executor_node"] = 2
    /\ constraints.previous_query # state.sql_query
    /\ exec_out.sql = state.sql_query
    /\ state.sql_result.rows = << <<"14">> >>
    /\ sql_data.rows = << <<"14">> >>

\* C35: the error count of a request is between 0 and 2, starts at 0, and
\* goes up by 1 with every execution that failed and with nothing else.
C35_CountsFailedExecutions ==
    /\ [](state.error_count \in 0..RetryCap)
    /\ [](prev = "START" => state.error_count = 0)
    /\ [][pc # "END" =>
            state'.error_count =
                state.error_count
                + (IF pc = "executor_node" /\ ExecutionRaised' THEN 1
                   ELSE 0)]_vars

\* C36: retrieval and the planner run at most once, retrieval while the
\* generator has not run; no step after retrieval changes the retrieved
\* documents; and the generator and the executor take turns, the generator
\* first.
C36_RetrievalOnceDocsKept ==
    /\ [](/\ runs["retrieval_node"] <= 1
          /\ runs["planner_node"] <= 1
          /\ pc = "retrieval_node" =>
               (runs["retrieval_node"] = 0 /\ runs["sql_gen_node"] = 0)
          /\ pc = "executor_node" =>
               runs["sql_gen_node"] = runs["executor_node"] + 1
          /\ pc # "executor_node" =>
               runs["sql_gen_node"] = runs["executor_node"]
          /\ pc = "sql_gen_node" => prev \in {"planner_node", "executor_node"}
          /\ prev = "sql_gen_node" => pc = "executor_node")
    /\ [][pc \notin {"retrieval_node", "END"} =>
            state'.retrieved_docs = state.retrieved_docs]_vars

\* A request that retrieved three documents has ended after a repair.
C36_Witness ==
    /\ pc = "END"
    /\ runs["retrieval_node"] = 1
    /\ runs["planner_node"] = 1
    /\ runs["executor_node"] = 2
    /\ Len(state.retrieved_docs) = 3

\* C37: under a hint containing list the coercion returns a sequence (a list
\* or a tuple), and under one containing dict and not list it returns a
\* mapping.
C37_HintedKind ==
    stage = "return" =>
        /\ contains(lower(TheHint), HintList)
              => output.final_answer.t \in {"list", "tuple"}
        /\ (contains(lower(TheHint), HintDict)
            /\ ~contains(lower(TheHint), HintList))
              => output.final_answer.t = "dict"

---------------------------------------------------------------------------
(* main: a batch file is read line by line *)

MaxLines == 2

\* The requests of the batch lines: one asking for a dict, one with a
\* question only
BatchQuestionObjs ==
    {[id |-> "q1", question |-> "q1", format_hint |-> HintDict],
     [question |-> "q2"]}

\* The lines of a batch file after strip(): empty ("blank"), a request
\* object, a text json.loads rejects with JSONDecodeError ("bad_json", as
\* '{x'), a text it rejects with another exception ("bad_value": ValueError
\* for a number of more than 4300 digits, RecursionError for brackets nested
\* too deep), and a JSON value that is no object ("not_object", as '42').
BatchLines ==
    {[kind |-> k, obj |-> EmptyDict] :
        k \in {"blank", "bad_json", "bad_value", "not_object"}}
        \cup {[kind |-> "request", obj |-> q] : q \in BatchQuestionObjs}

\* What app.invoke does for the requests of the batch
BatchInvokeOutcomes ==
    {[raises |-> FALSE, final_answer |-> a] :
        a \in {<<"7">>, <<"[", "{", "[", "1", "]", "}", "]">>}}
        \cup {[raises |-> TRUE, final_answer |-> <<>>]}

\* main, lines 159-178: one turn of the loop.  An empty line is passed over;
\* JSONDecodeError is caught, reported and the loop continues; any other
\* exception of json.loads, of question_obj.get or of process_question
\* leaves main before the results are written.
read_line ==
    /\ batch = "reading"
    /\ line_num < Len(lines)
    /\ line_num' = line_num + 1
    /\ LET line == lines[line_num + 1] IN
       CASE line.kind = "blank" ->
              UNCHANGED <<results, diagnostics, batch>>
         [] line.kind = "bad_json" ->
              /\ diagnostics' = Append(diagnostics, line_num + 1)
              /\ UNCHANGED <<results, batch>>
         [] line.kind \in {"bad_value", "not_object"} ->
              /\ batch' = "aborted"
              /\ UNCHANGED <<results, diagnostics>>
         [] line.kind = "request" ->
              \E o \in BatchInvokeOutcomes :
                 LET result == make_result(line.obj, invoke_state(o)) IN
                 /\ results' = IF result = NoResult THEN results
                               ELSE Append(results, result)
                 /\ batch' = IF result = NoResult THEN "aborted" ELSE batch
                 /\ UNCHANGED diagnostics
    /\ UNCHANGED <<gvars, pvars, svars, lines, out_file, requests>>

\* main, lines 180-183: after the last line the results are written
write_results ==
    /\ batch = "reading"
    /\ line_num = Len(lines)
    /\ out_file' = results
    /\ batch' = "written"
    /\ UNCHANGED <<gvars, pvars, svars, lines, line_num, results,
                   diagnostics, requests>>

\* main has opened a batch file of some lines.
BatchInit ==
    /\ chunks = <<>>
    /\ bm25 = NoIndex
    /\ state = initial_state("q1", "string")
    /\ pc = "router_node"
    /\ prev = "START"
    /\ runs = [n \in Nodes |-> 0]
    /\ failed_execs = 0
    /\ router_out = NoCompletion
    /\ tool_choice = NoRoute
    /\ constraints = NoConstraints
    /\ sql_data = NoCall
    /\ exec_out = NoExecution
    /\ gen_failed = FALSE
    /\ ProcessIdle
    /\ SearchIdle
    /\ ToolsIdle
    /\ lines \in UNION {[1..n -> BatchLines] : n \in 0..MaxLines}
    /\ line_num = 0
    /\ results = <<>>
    /\ out_file = <<>>
    /\ diagnostics = <<>>
    /\ batch = "reading"
    /\ requests = 0

BatchNext == read_line \/ write_results

BatchSpec == BatchInit /\ [][BatchNext]_vars

\* The lines of the batch that json.loads rejects
Unparseable(n) == lines[n].kind \in {"bad_json", "bad_value"}

\* C28: main never stops on a line that cannot be parsed: such a line is
\* reported, and the lines after it are read and the results written.
C28_UnparseableSkipped ==
    /\ batch = "aborted" => ~Unparseable(line_num)
    /\ \A n \in 1..line_num :
         Unparseable(n) => \E d \in 1..Len(diagnostics) : diagnostics[d] = n

RECURSIVE RequestIds(_)
RequestIds(n) ==
    IF n = 0 THEN <<>>
    ELSE IF lines[n].kind = "request"
         THEN Append(RequestIds(n - 1), DictGet(lines[n].obj, "id", "unknown"))
         ELSE RequestIds(n - 1)

\* C38: once main has stopped, the output file holds one record for every
\* request line of the batch, in the order of the lines and with the id of
\* the request; while lines are still being read nothing has been written.
C38_OneRecordPerRequest ==
    /\ batch = "reading" => out_file = <<>>
    /\ batch \in {"written", "aborted"} =>
         /\ Len(out_file) = Len(RequestIds(Len(lines)))
         /\ \A n \in 1..Len(out_file) :
              out_file[n].id = RequestIds(Len(lines))[n]

---------------------------------------------------------------------------
(* Searches on a retriever: any corpus, any scores, any k *)

MaxChunks == 3
Scores == {-1, 0, 2}
Min(a, b) == IF a < b THEN a ELSE b

\* The corpora: the first chunks of Corpus
Corpora == {SubSeq(Corpus, 1, n) : n \in 0..Min(MaxChunks, Len(Corpus))}

\* The indexes of a corpus: any scores for q1, no match for q2
Indexes(chs) ==
    IF chs = <<>> THEN {NoIndex}
    ELSE {[q \in Questions |->
             IF q = "q1" THEN sc ELSE [m \in 1..Len(chs) |-> 0]] :
          sc \in [1..Len(chs) -> Scores]}

\* k of a call, up to more than there are chunks
SearchKs == 0..(MaxChunks + 1)

\* A caller searches; others tells whether some call so far differed from
\* the first one in its query or its k.
search_call ==
    /\ \E q \in Questions, k \in SearchKs :
         LET differs == first_call # NoSearch
                        /\ (first_call.query # q \/ first_call.k # k)
             call == [query |-> q, k |-> k, results |-> search(q, k),
                      others |-> last_call.others \/ differs]
         IN /\ last_call' = call
            /\ first_call' = IF first_call = NoSearch THEN call
                             ELSE first_call
    /\ UNCHANGED <<gvars, pvars, bvars, tvars>>

\* The retriever has been built on some corpus; no request is running.
SearchInit ==
    /\ chunks \in Corpora
    /\ bm25 \in Indexes(chunks)
    /\ state = initial_state("q1", "string")
    /\ pc = "router_node"
    /\ prev = "START"
    /\ runs = [n \in Nodes |-> 0]
    /\ failed_execs = 0
    /\ router_out = NoCompletion
    /\ tool_choice = NoRoute
    /\ constraints = NoConstraints
    /\ sql_data = NoCall
    /\ exec_out = NoExecution
    /\ gen_failed = FALSE
    /\ ProcessIdle
    /\ SearchIdle
    /\ ToolsIdle
    /\ BatchIdle

SearchNext == search_call

SearchSpec == SearchInit /\ [][SearchNext]_vars

\* C21: a search returns min(k, number of chunks) chunks of the corpus, a
\* chunk of higher score before one of lower score, chunks of equal score in
\* their order in the corpus, and every chunk left out comes after every
\* chunk returned in that order.
C21_TopK ==
    last_call # NoSearch =>
        LET res == last_call.results
            n == Len(chunks)
            scores == IF bm25 = NoIndex THEN <<>> ELSE bm25[last_call.query]
            idx(i) == CHOOSE m \in 1..n : chunks[m] = res[i]
            Before(a, b) ==
                scores[a] > scores[b] \/ (scores[a] = scores[b] /\ a < b)
        IN /\ Len(res) = Min(last_call.k, n)
           /\ \A i \in 1..Len(res) : \E m \in 1..n : chunks[m] = res[i]
           /\ \A i, j \in 1..Len(res) : i < j => Before(idx(i), idx(j))
           /\ \A m \in 1..n :
                (\A i \in 1..Len(res) : idx(i) # m)
                    => \A i \in 1..Len(res) : Before(idx(i), m)

\* Two of three chunks were asked for; the first and the third tie above the
\* second and come back in corpus order.
C21_Witness ==
    /\ Len(chunks) = 3
    /\ bm25 # NoIndex
    /\ bm25["q1"] = <<2, -1, 2>>
    /\ last_call.query = "q1"
    /\ last_call.k = 2
    /\ last_call.results = <<chunks[1], chunks[3]>>

---------------------------------------------------------------------------
(* The clean-up of sql_gen_node on any raw completion text *)

MaxTokens == 4

\* What raw completion texts are made of: fences, whitespace, and a query
RawTokens ==
    {Fence, FenceSql, <<" ">>, <<"\n">>, <<"S", "E", "L", "E", "C", "T">>}

RECURSIVE Concat(_)
Concat(ts) == IF ts = <<>> THEN <<>> ELSE Head(ts) \o Concat(Tail(ts))

RawTexts ==
    {Concat(ts) : ts \in UNION {[1..n -> RawTokens] : n \in 0..MaxTokens}}

\* sql_gen_node, lines 94-105, on the text the generator returned
clean_call ==
    /\ cleaned = NotCleaned
    /\ cleaned' = clean_sql(raw_text)
    /\ UNCHANGED <<gvars, pvars, bvars, first_call, last_call, raw_text,
                   open_conns, opened, tool_result, docs_dir>>

\* A completion text has come back from the generator.
CleanInit ==
    /\ chunks = <<>>
    /\ bm25 = NoIndex
    /\ state = initial_state("q1", "string")
    /\ pc = "sql_gen_node"
    /\ prev = "planner_node"
    /\ runs = [n \in Nodes |-> 0]
    /\ failed_execs = 0
    /\ router_out = NoCompletion
    /\ tool_choice = NoRoute
    /\ constraints = NoConstraints
    /\ sql_data = NoCall
    /\ exec_out = NoExecution
    /\ gen_failed = FALSE
    /\ ProcessIdle
    /\ SearchIdle
    /\ BatchIdle
    /\ raw_text \in RawTexts
    /\ cleaned = NotCleaned
    /\ open_conns = {}
    /\ opened = 0
    /\ tool_result = NoToolResult
    /\ docs_dir = <<>>

CleanNext == clean_call

CleanSpec == CleanInit /\ [][CleanNext]_vars

\* C32: the cleaned query neither starts nor ends with a fence and has no
\* whitespace around it.
C32_NoFenceLeft ==
    cleaned # NotCleaned =>
        /\ ~startswith(cleaned, Fence)
        /\ ~endswith(cleaned, Fence)
        /\ strip(cleaned) = cleaned

---------------------------------------------------------------------------
(* Calls on the database tool: connections opened and closed *)

MaxCalls == 4

\* What a call of get_schema can meet: nothing raises, sqlite3.connect
\* raises (no connection exists then), or a statement raises on the open
\* connection.
SchemaOutcomes == {"ok", "connect", "statement"}

\* SQLiteTool.execute_query with its connection: connect (line 68) raises, or
\* the connection is opened; conn.close() (line 78) is reached only if
\* neither execute nor fetchall raised; the except branch (lines 80-81) does
\* not close.  A connection left open is closed only when the interpreter gets
\* to collect it.
execute_query_call ==
    /\ opened < MaxCalls
    /\ \E o \in ExecOutcomes, connected \in BOOLEAN :
         /\ ~connected => o.raises = "execute"
         /\ opened' = IF connected THEN opened + 1 ELSE opened
         /\ open_conns' = IF connected /\ o.raises # "no"
                          THEN open_conns \cup {opened + 1}
                          ELSE open_conns
         /\ tool_result' = [call |-> "execute_query",
                            value |-> execute_query(SelectOne, o)]
    /\ UNCHANGED <<gvars, pvars, bvars, first_call, last_call, raw_text,
                   cleaned, docs_dir>>

\* SQLiteTool.get_schema with its connection: conn.close() (line 42) is
\* reached only if nothing raised before it.
get_schema_call ==
    /\ opened < MaxCalls
    /\ \E o \in SchemaOutcomes :
         /\ opened' = IF o = "connect" THEN opened ELSE opened + 1
         /\ open_conns' = IF o = "statement"
                          THEN open_conns \cup {opened + 1}
                          ELSE open_conns
         /\ tool_result' =
              [call |-> "get_schema",
               value |-> IF o = "ok" THEN [schema |-> "CREATE TABLE Orders"]
                         ELSE [schema |-> "Error retrieving schema"]]
    /\ UNCHANGED <<gvars, pvars, bvars, first_call, last_call, raw_text,
                   cleaned, docs_dir>>

\* The interpreter collects the connections no call holds any more.
collect ==
    /\ open_conns # {}
    /\ open_conns' = {}
    /\ UNCHANGED <<gvars, pvars, bvars, first_call, last_call, raw_text,
                   cleaned, opened, tool_result, docs_dir>>

\* The tool has been built; no call has been made.
ToolInit ==
    /\ chunks = <<>>
    /\ bm25 = NoIndex
    /\ state = initial_state("q1", "string")
    /\ pc = "router_node"
    /\ prev = "START"
    /\ runs = [n \in Nodes |-> 0]
    /\ failed_execs = 0
    /\ router_out = NoCompletion
    /\ tool_choice = NoRoute
    /\ constraints = NoConstraints
    /\ sql_data = NoCall
    /\ exec_out = NoExecution
    /\ gen_failed = FALSE
    /\ ProcessIdle
    /\ SearchIdle
    /\ BatchIdle
    /\ ToolsIdle

ToolNext == execute_query_call \/ get_schema_call \/ collect

ToolSpec == ToolInit /\ [][ToolNext]_vars

\* C33: whenever a call of execute_query or get_schema has returned, no
\* connection is open.
C33_NoConnectionOpen == open_conns = {}

---------------------------------------------------------------------------
(* The retriever is built on a documentation folder *)

MaxFiles == 2

\* File names of the folder: three the loader takes and one it passes over
FileNames ==
    { <<"a", ".", "m", "d">>,
      <<"b", ".", "m", "d">>,
      <<"a", ".", "m", "d", ":", ":", "c", "h", "u", "n", "k", "_", "0", ".",
        "m", "d">>,
      <<"a", ".", "t", "x", "t">> }

\* File contents: empty, one paragraph, paragraphs with empty ones between
\* and before them, sections under headers, headers without text
FileContents ==
    { <<>>,
      <<"a">>,
      <<"a", "\n", "\n", "b">>,
      <<"\n", "\n", "\n", "\n", "a", "\n", "\n", " ", "\n", "\n", "b">>,
      <<"a", "\n", "#", "#", " ", "b", "\n", "#", "#", " ", "c">>,
      <<"\n", "#", "#", " ", "\n", "#", "#", " ", "\n", "b">>,
      <<"a", "\n", "#", "#", "b", "\n", "\n", "c">> }

\* The listings of a folder: files of different names in the order
\* os.listdir gives them; a file that cannot be read has readable FALSE.
Folders ==
    { d \in UNION { [1..n -> [name : FileNames, content : FileContents,
                              readable : BOOLEAN]] : n \in 0..MaxFiles } :
        \A i, j \in 1..Len(d) : i # j => d[i].name # d[j].name }

\* The end of the whitespace that starts at position j
RECURSIVE ws_end(_, _)
ws_end(s, j) ==
    IF j <= Len(s) /\ s[j] \in Whitespace THEN ws_end(s, j + 1) ELSE j

\* Whether the pattern \n##\s+ matches at position i
header_at(s, i) ==
    /\ i + 3 <= Len(s)
    /\ s[i] = "\n"
    /\ s[i + 1] = "#"
    /\ s[i + 2] = "#"
    /\ s[i + 3] \in Whitespace

\* re.split(r'\n##\s+', content), from position i with the piece that began
\* at start
RECURSIVE split_headers(_, _, _, _)
split_headers(s, i, start, acc) ==
    IF i > Len(s) THEN Append(acc, SubSeq(s, start, Len(s)))
    ELSE IF header_at(s, i)
         THEN split_headers(s, ws_end(s, i + 3), ws_end(s, i + 3),
                            Append(acc, SubSeq(s, start, i - 1)))
         ELSE split_headers(s, i + 1, start, acc)

\* content.split('\n\n')
RECURSIVE split_blank(_, _, _, _)
split_blank(s, i, start, acc) ==
    IF i > Len(s) THEN Append(acc, SubSeq(s, start, Len(s)))
    ELSE IF i + 1 <= Len(s) /\ s[i] = "\n" /\ s[i + 1] = "\n"
         THEN split_blank(s, i + 2, i + 2, Append(acc, SubSeq(s, start, i - 1)))
         ELSE split_blank(s, i + 1, start, acc)

ChunkSep == <<":", ":", "c", "h", "u", "n", "k", "_">>

\* The chunks of the sections from the one of index idx on (idx counts from
\* 0 and counts the empty sections too)
RECURSIVE chunks_from(_, _, _)
chunks_from(sections, idx, filename) ==
    IF idx >= Len(sections) THEN <<>>
    ELSE (IF strip(sections[idx + 1]) # <<>>
          THEN <<[doc_id |-> filename \o ChunkSep \o nat_text(idx),
                  content |-> strip(sections[idx + 1])]>>
          ELSE <<>>)
         \o chunks_from(sections, idx + 1, filename)

\* _chunk_content naming the chunks by their index alone
chunk_content_without_filename(content, filename) ==
    chunks_from(
        IF Len(split_headers(content, 1, 1, <<>>)) <= 1
        THEN split_blank(content, 1, 1, <<>>)
        ELSE split_headers(content, 1, 1, <<>>),
        0, <<>>)

\* LocalRetriever._chunk_content
chunk_content(content, filename) ==
    chunks_from(
        IF Len(split_headers(content, 1, 1, <<>>)) <= 1
        THEN split_blank(content, 1, 1, <<>>)
        ELSE split_headers(content, 1, 1, <<>>),
        0, filename)

\* LocalRetriever._load_file: the chunks of a file, none if reading it raises
load_file(f) ==
    IF f.readable THEN chunk_content(f.content, f.name) ELSE <<>>

\* The loop of _load_and_index_docs over the listing, from file n on
RECURSIVE load_docs(_, _)
load_docs(d, n) ==
    IF n > Len(d) THEN <<>>
    ELSE (IF endswith(d[n].name, <<".", "m", "d">>) THEN load_file(d[n])
          ELSE <<>>)
         \o load_docs(d, n + 1)

\* LocalRetriever.__init__: the chunks start empty, the files of the folder
\* are loaded and the index is built if there are chunks (what the index
\* scores is not followed here: no query matches).
LocalRetriever_init ==
    /\ chunks' = load_docs(docs_dir, 1)
    /\ bm25' = IF chunks' = <<>> THEN NoIndex
               ELSE [q \in Questions |-> [m \in 1..Len(chunks') |-> 0]]
    /\ UNCHANGED <<state, pc, prev, runs, failed_execs, router_out,
                   tool_choice, constraints, sql_data, exec_out, gen_failed,
                   pvars, bvars, first_call, last_call, raw_text, cleaned,
                   open_conns, opened, tool_result>>
    /\ UNCHANGED docs_dir

\* A folder exists; the retriever has not been built.
ChunkInit ==
    /\ chunks = <<>>
    /\ bm25 = NoIndex
    /\ state = initial_state("q1", "string")
    /\ pc = "router_node"
    /\ prev = "START"
    /\ runs = [n \in Nodes |-> 0]
    /\ failed_execs = 0
    /\ router_out = NoCompletion
    /\ tool_choice = NoRoute
    /\ constraints = NoConstraints
    /\ sql_data = NoCall
    /\ exec_out = NoExecution
    /\ gen_failed = FALSE
    /\ ProcessIdle
    /\ SearchIdle
    /\ BatchIdle
    /\ raw_text = <<>>
    /\ cleaned = NotCleaned
    /\ open_conns = {}
    /\ opened = 0
    /\ tool_result = NoToolResult
    /\ docs_dir \in Folders

ChunkNext == LocalRetriever_init

ChunkSpec == ChunkInit /\ [][ChunkNext]_vars

\* C39: no two chunks of the retriever have the same identifier.
C39_UniqueIds ==
    \A i, j \in 1..Len(chunks) : i # j => chunks[i].doc_id # chunks[j].doc_id

\* Two files have been loaded, and a.md keeps only its third and fifth
\* paragraph, numbered 2 and 4.
C39_Witness ==
    /\ Len(docs_dir) = 2
    /\ \E i, j, m \in 1..Len(chunks) :
         /\ chunks[i].doc_id = <<"a", ".", "m", "d">> \o ChunkSep \o <<"2">>
         /\ chunks[j].doc_id = <<"a", ".", "m", "d">> \o ChunkSep \o <<"4">>
         /\ chunks[m].doc_id = <<"b", ".", "m", "d">> \o ChunkSep \o <<"2">>

====
